---- MODULE Spec2Model ----
(***************************************************************************)
(* Intrusive pointer-linked binary min-heap of olsrd (struct bin_heap /    *)
(* struct heap_node).  Nodes are identities 1..NumNodes, NULL is 0.  The   *)
(* node memory is the three link maps parent/left/right plus the caller    *)
(* owned key map; every heap is a record count/root_node/last_node.        *)
(* The C functions are operators over a record                             *)
(*   [parent, left, right, count, root_node, last_node, segv]              *)
(* and are computed statement by statement as the code does.  A NULL       *)
(* dereference sets segv.  count is an unsigned int in the code; it is     *)
(* bounded by NumNodes here and is only decremented when root_node is not  *)
(* NULL, so the 32-bit wrap-around is out of reach and plain integers are  *)
(* used.  Spec takes every call as one step; SpecTwoHeaps does so for two  *)
(* heaps; SpecFill only fills one heap; SpecSteps follows the calls loop   *)
(* iteration by loop iteration, the variable call holding the locals.      *)
(* SpecSift has three keys; SpecAnyKeys lets the owner                     *)
(* write any key into a queued node; SpecReinit calls heap_init and        *)
(* heap_init_node at any time; SpecRaw inserts nodes whose links were      *)
(* never initialised; SpecClimb fills and drains a heap of up to           *)
(* ClimbNodes nodes.                                                       *)
(*                                                                         *)
(* The egress file reader (startEgressFile, stopEgressFile, readEgressFile *)
(* and its timer) is the second part: the variable reader holds its static *)
(* variables and the interface list, file the polled file, poll the path   *)
(* its last call took.  SpecEgress runs it.                                *)
(***************************************************************************)
EXTENDS Integers, FiniteSets, Sequences, TLC

NumNodes == 6
MaxKey == 2
TwoHeapNodes == 3
FillNodes == 7
StepNodes == 6
SiftNodes == 6
SiftKeys == 3
AnyKeyNodes == 5
ReinitNodes == 3
RawNodes == 4
NumIfs == 2
MaxBw == 1
MaxTime == 2
ClimbNodes == 12

NULL == 0
Nodes == 1..NumNodes
Keys == 1..MaxKey
Heaps == {"A", "B"}

VARIABLES key, parent, left, right, heap, crashed, queued, lastOp, opHeap, opNode,
          ret, call, reader, file, poll

vars == <<key, parent, left, right, heap, crashed, queued, lastOp, opHeap, opNode,
          ret, call, reader, file, poll>>

(* The egress file reader, the file it polls, and the record of its last
   call: no heap function touches them. *)
ReaderVars == <<reader, file, poll>>

HeapVars == <<key, parent, left, right, heap, crashed, queued, lastOp, opHeap,
              opNode, ret, call>>

(* ---------------- memory access helpers ---------------- *)

SetParent(s, n, v) == [s EXCEPT !.parent[n] = v]
SetLeft(s, n, v) == [s EXCEPT !.left[n] = v]
SetRight(s, n, v) == [s EXCEPT !.right[n] = v]
SetRoot(s, v) == [s EXCEPT !.root_node = v]
SetLastNode(s, v) == [s EXCEPT !.last_node = v]
SetCount(s, v) == [s EXCEPT !.count = v]
Segv(s) == [s EXCEPT !.segv = TRUE]

(* n->left = m->left;   n->right = m->right;   n->parent = m->parent; *)
LeftFrom(s, n, m) == SetLeft(s, n, s.left[m])
RightFrom(s, n, m) == SetRight(s, n, s.right[m])
ParentFrom(s, n, m) == SetParent(s, n, s.parent[m])

(* if (n->left) n->left->parent = n;   if (n->right) n->right->parent = n; *)
AdoptLeft(s, n) == IF s.left[n] # NULL THEN SetParent(s, s.left[n], n) ELSE s
AdoptRight(s, n) == IF s.right[n] # NULL THEN SetParent(s, s.right[n], n) ELSE s

(* mutant: the sibling is not told its new parent *)
SetParentIf_skipped(s, c, p) == s

(* if (c) c->parent = p; *)
SetParentIf(s, c, p) == IF c # NULL THEN SetParent(s, c, p) ELSE s

(* if (p) { if (p->left == old) p->left = new; else p->right = new; }
   else heap->root_node = new; *)
ReplaceChild(s, p, old, new) ==
  IF p # NULL
    THEN IF s.left[p] = old THEN SetLeft(s, p, new) ELSE SetRight(s, p, new)
    ELSE SetRoot(s, new)

(* mutant: a rotation leaves last_node as it is *)
RedirectLast_never(s, from, to) == s

(* if (heap->last_node == from) heap->last_node = to; *)
RedirectLast(s, from, to) == IF s.last_node = from THEN SetLastNode(s, to) ELSE s

(* The view of one heap together with the node memory. *)
View(h) ==
  [key |-> key, parent |-> parent, left |-> left, right |-> right,
   count |-> heap[h].count, root_node |-> heap[h].root_node,
   last_node |-> heap[h].last_node, segv |-> FALSE]

(* ---------------- heap.c ---------------- *)

(* mutant: heap_init also unlinks the node that was the root *)
heap_init_unlinks_root(s) ==
  IF s.root_node = NULL THEN [s EXCEPT !.count = 0, !.last_node = NULL]
  ELSE [s EXCEPT !.count = 0, !.last_node = NULL, !.root_node = NULL,
                 !.left[s.root_node] = NULL, !.right[s.root_node] = NULL]

heap_init(s) == SetLastNode(SetRoot(SetCount(s, 0), NULL), NULL)

(* mutant: heap_init_node forgets the right link *)
heap_init_node_keeps_right(s, node) ==
  [s EXCEPT !.parent[node] = NULL, !.left[node] = NULL]

(* mutant: heap_init_node resets the key with the links *)
heap_init_node_resets_key(s, node) ==
  [s EXCEPT !.key[node] = 0, !.parent[node] = NULL, !.left[node] = NULL,
            !.right[node] = NULL]

heap_init_node(s, node) ==
  [s EXCEPT !.parent[node] = NULL, !.left[node] = NULL, !.right[node] = NULL]

RECURSIVE Log2Loop(_)
Log2Loop(number) == IF number \div 2 # 0 THEN 1 + Log2Loop(number \div 2) ELSE 0

(* mutant: a full last level is not recognised *)
heap_perfect_log2_never_full(number) == number + 1 - 2 ^ Log2Loop(number)

heap_perfect_log2(number) == number - 2 ^ Log2Loop(number)

(* while (aux->left) aux = aux->left;  -1 when aux is NULL *)
RECURSIVE DescendLeft(_, _)
DescendLeft(s, aux) ==
  IF aux = NULL THEN -1
  ELSE IF s.left[aux] # NULL THEN DescendLeft(s, s.left[aux]) ELSE aux

(* while (aux->right) aux = aux->right;  -1 when aux is NULL *)
RECURSIVE DescendRight(_, _)
DescendRight(s, aux) ==
  IF aux = NULL THEN -1
  ELSE IF s.right[aux] # NULL THEN DescendRight(s, s.right[aux]) ELSE aux

(* mutant: the navigator does not climb from a last node that is a right child *)
ClimbWhileRight_stays(s, aux) ==
  IF aux = NULL \/ s.parent[aux] = NULL THEN -1 ELSE aux

(* while (aux->parent->right == aux) aux = aux->parent;  -1 on NULL deref *)
RECURSIVE ClimbWhileRight(_, _)
ClimbWhileRight(s, aux) ==
  IF aux = NULL \/ s.parent[aux] = NULL THEN -1
  ELSE IF s.right[s.parent[aux]] = aux THEN ClimbWhileRight(s, s.parent[aux])
  ELSE aux

(* while (aux->parent->left == aux) aux = aux->parent;  -1 on NULL deref *)
RECURSIVE ClimbWhileLeft(_, _)
ClimbWhileLeft(s, aux) ==
  IF aux = NULL \/ s.parent[aux] = NULL THEN -1
  ELSE IF s.left[s.parent[aux]] = aux THEN ClimbWhileLeft(s, s.parent[aux])
  ELSE aux

(* mutant: the navigator takes the parent of the ancestor whether or not
   it has a right child *)
InsertParentBeside_takes_parent(s, aux) ==
  IF aux = -1 THEN -1 ELSE s.parent[aux]

(* if (!aux->parent->right) return aux->parent;
   aux = aux->parent->right; while (aux->left) aux = aux->left; *)
InsertParentBeside(s, aux) ==
  IF aux = -1 THEN -1
  ELSE IF s.right[s.parent[aux]] = NULL THEN s.parent[aux]
  ELSE DescendLeft(s, s.right[s.parent[aux]])

(* mutant: on a full bottom level the navigator descends to the right *)
heap_find_parent_full_right(s) ==
  IF heap_perfect_log2(s.count + 1) = 0
    THEN DescendRight(s, s.root_node)
  ELSE IF (s.count + 1) % 2 = 0
    THEN InsertParentBeside(s, ClimbWhileRight(s, s.last_node))
  ELSE IF s.last_node = NULL THEN -1 ELSE s.parent[s.last_node]

(* mutant: for an odd position the navigator returns last_node itself *)
heap_find_parent_odd_last(s) ==
  IF heap_perfect_log2(s.count + 1) = 0
    THEN DescendLeft(s, s.root_node)
  ELSE IF (s.count + 1) % 2 = 0
    THEN InsertParentBeside(s, ClimbWhileRight(s, s.last_node))
  ELSE IF s.last_node = NULL THEN -1 ELSE s.last_node

heap_find_parent_insert_node(s) ==
  IF heap_perfect_log2(s.count + 1) = 0
    THEN DescendLeft(s, s.root_node)
  ELSE IF (s.count + 1) % 2 = 0
    THEN InsertParentBeside(s, ClimbWhileRight(s, s.last_node))
  ELSE IF s.last_node = NULL THEN -1 ELSE s.parent[s.last_node]

(* One iteration of the sift-up loop body of heap_decrease_key; p, l, r are
   the locals parent, left, right. *)
SiftUpStep(s, node, p, l, r) ==
  LET a == IF s.left[p] = node
             THEN AdoptRight(RightFrom(SetLeft(s, node, p), node, p), node)
             ELSE AdoptLeft(LeftFrom(SetRight(s, node, p), node, p), node)
      b == ParentFrom(a, node, p)
      c == ReplaceChild(b, b.parent[node], p, node)
      d == SetParent(SetRight(SetLeft(c, p, l), p, r), p, node)
  IN SetParentIf(SetParentIf(d, l, p), r, p)

(* mutant: the sift-up loop never swaps the node with the root *)
RECURSIVE SiftUpLoop_below_root(_, _, _)
SiftUpLoop_below_root(s, k, node) ==
  IF /\ s.parent[node] # NULL
     /\ s.parent[s.parent[node]] # NULL
     /\ k[s.parent[node]] > k[node]
    THEN SiftUpLoop_below_root(
           SiftUpStep(s, node, s.parent[node], s.left[node], s.right[node]), k, node)
    ELSE s

(* The loop condition parent && (parent->key > node->key). *)
SiftUpCond(s, k, node) == s.parent[node] # NULL /\ k[s.parent[node]] > k[node]

(* while (parent && (parent->key > node->key)) { ... }  The locals parent,
   left and right hold node's links at every loop head. *)
RECURSIVE SiftUpLoop(_, _, _)
SiftUpLoop(s, k, node) ==
  IF SiftUpCond(s, k, node)
    THEN SiftUpLoop(SiftUpStep(s, node, s.parent[node], s.left[node], s.right[node]),
                    k, node)
    ELSE s

(* mutant: last_node is redirected to the parent on equal keys too *)
LastToParent_on_equal(s, k, node) ==
  IF k[s.parent[node]] >= k[node] /\ s.last_node = node
    THEN SetLastNode(s, s.parent[node]) ELSE s

(* mutant: last_node is redirected only when the parent is in order with
   its other child *)
LastToParent_while_ordered(s, k, node) ==
  IF /\ k[s.parent[node]] > k[node]
     /\ s.last_node = node
     /\ \A c \in {s.left[s.parent[node]], s.right[s.parent[node]]} \ {NULL, node} :
          k[s.parent[node]] <= k[c]
    THEN SetLastNode(s, s.parent[node]) ELSE s

(* if (parent->key > node->key) { if (heap->last_node == node)
     heap->last_node = parent; } *)
LastToParent(s, k, node) ==
  IF k[s.parent[node]] > k[node] /\ s.last_node = node
    THEN SetLastNode(s, s.parent[node]) ELSE s

(* part of the mutant below: one guarded iteration of the loop *)
SiftUpOnce(s, k, node) ==
  IF s.parent[node] # NULL /\ k[s.parent[node]] > k[node]
    THEN SiftUpStep(s, node, s.parent[node], s.left[node], s.right[node])
    ELSE s

(* mutant: the sift-up makes one parent swap at most *)
heap_decrease_key_one_swap(s, k, node) ==
  IF s.parent[node] = NULL THEN s
  ELSE SiftUpOnce(LastToParent(s, k, node), k, node)

(* mutant: last_node is not redirected when the last node is sifted up *)
heap_decrease_key_keeps_last(s, k, node) ==
  IF s.parent[node] = NULL THEN s ELSE SiftUpLoop(s, k, node)

heap_decrease_key(s, k, node) ==
  IF s.parent[node] = NULL THEN s
  ELSE SiftUpLoop(LastToParent(s, k, node), k, node)

(* mutant: the new node is always stored in the parent's left link *)
AttachChild_left_only(s, p, node) == SetLeft(s, p, node)

(* if (parent->left) parent->right = node; else parent->left = node; *)
AttachChild(s, p, node) ==
  IF s.left[p] # NULL THEN SetRight(s, p, node) ELSE SetLeft(s, p, node)

IncCount(s) == SetCount(s, s.count + 1)

(* The node is attached under parent p, counted and made last_node. *)
Attached(s, node, p) ==
  SetLastNode(IncCount(SetParent(AttachChild(s, p, node), node, p)), node)

(* heap_insert from the attachment under the parent the navigator found. *)
AttachAt(s, k, node, p) ==
  IF p = -1 \/ p = NULL THEN Segv(s)
  ELSE heap_decrease_key(Attached(s, node, p), k, node)

(* mutant: the first node is inserted without counting it *)
InsertLinked_first_uncounted(s, k, node) ==
  IF s.count = 0
    THEN SetLastNode(SetRoot(s, node), node)
    ELSE AttachAt(s, k, node, heap_find_parent_insert_node(s))

(* heap_insert after heap_init_node(node). *)
InsertLinked(s, k, node) ==
  IF s.count = 0
    THEN IncCount(SetLastNode(SetRoot(s, node), node))
    ELSE AttachAt(s, k, node, heap_find_parent_insert_node(s))

(* mutant: heap_insert does not call heap_init_node *)
heap_insert_uninitialised(s, k, node) == InsertLinked(s, k, node)

heap_insert(s, k, node) == InsertLinked(heap_init_node(s, node), k, node)

(* p, l, r are the locals parent, left, right. *)
SwapLeftLinks(s, node, p, l, r) ==
  LET t1 == AdoptLeft(LeftFrom(SetParent(s, node, l), node, l), node)
      t2 == AdoptRight(RightFrom(t1, node, l), node)
      t3 == ReplaceChild(SetParent(t2, l, p), p, node, l)
      t4 == SetParentIf(SetRight(SetLeft(t3, l, node), l, r), r, l)
  IN RedirectLast(t4, l, node)

heap_swap_left(s, node) ==
  SwapLeftLinks(s, node, s.parent[node], s.left[node], s.right[node])

SwapRightLinks(s, node, p, l, r) ==
  LET t1 == AdoptLeft(LeftFrom(SetParent(s, node, r), node, r), node)
      t2 == AdoptRight(RightFrom(t1, node, r), node)
      t3 == ReplaceChild(SetParent(t2, r, p), p, node, r)
      t4 == SetParentIf(SetLeft(SetRight(t3, r, node), r, l), l, r)
  IN RedirectLast(t4, r, node)

(* part of the mutant below: right->left = left and its parent link are lost *)
SwapRightLinksDropLeft(s, node, p, l, r) ==
  LET t1 == AdoptLeft(LeftFrom(SetParent(s, node, r), node, r), node)
      t2 == AdoptRight(RightFrom(t1, node, r), node)
      t3 == ReplaceChild(SetParent(t2, r, p), p, node, r)
      t4 == SetLeft(SetRight(t3, r, node), r, NULL)
  IN RedirectLast(t4, r, node)

(* mutant: the promoted right child does not adopt the node's left child *)
heap_swap_right_drops_left(s, node) ==
  SwapRightLinksDropLeft(s, node, s.parent[node], s.left[node], s.right[node])

heap_swap_right(s, node) ==
  SwapRightLinks(s, node, s.parent[node], s.left[node], s.right[node])

(* mutant: the sift-down never looks at the right child *)
RECURSIVE heap_increse_key_left_only(_, _, _)
heap_increse_key_left_only(s, k, node) ==
  IF s.left[node] # NULL /\ k[node] > k[s.left[node]]
    THEN heap_increse_key_left_only(heap_swap_left(s, node), k, node)
    ELSE s

(* mutant: no rotation is made when the two children have equal keys *)
SwapBestChild_none_on_tie(s, k, node, l, r) ==
  IF l # NULL /\ k[node] > k[l]
    THEN IF r # NULL /\ k[node] > k[r]
           THEN IF k[l] < k[r] THEN heap_swap_left(s, node)
                ELSE IF k[r] < k[l] THEN heap_swap_right(s, node)
                ELSE s
           ELSE heap_swap_left(s, node)
    ELSE heap_swap_right(s, node)

(* mutant: on equal keys of the two children the left one is promoted *)
SwapBestChild_left_on_tie(s, k, node, l, r) ==
  IF l # NULL /\ k[node] > k[l]
    THEN IF r # NULL /\ k[node] > k[r]
           THEN IF k[l] <= k[r] THEN heap_swap_left(s, node)
                                ELSE heap_swap_right(s, node)
           ELSE heap_swap_left(s, node)
    ELSE heap_swap_right(s, node)

(* mutant: the left child is promoted whenever its key is smaller than the
   node's, whatever the key of the right child *)
SwapBestChild_left_first(s, k, node, l, r) ==
  IF l # NULL /\ k[node] > k[l]
    THEN heap_swap_left(s, node)
    ELSE heap_swap_right(s, node)

(* The rotation heap_increse_key chooses; l, r are the locals left, right. *)
SwapBestChild(s, k, node, l, r) ==
  IF l # NULL /\ k[node] > k[l]
    THEN IF r # NULL /\ k[node] > k[r]
           THEN IF k[l] < k[r] THEN heap_swap_left(s, node)
                               ELSE heap_swap_right(s, node)
           ELSE heap_swap_left(s, node)
    ELSE heap_swap_right(s, node)

(* heap_increse_key rotates and recurses: one of the children is better. *)
SiftDownCond(s, k, node) ==
  \/ s.left[node] # NULL /\ k[node] > k[s.left[node]]
  \/ s.right[node] # NULL /\ k[node] > k[s.right[node]]

RECURSIVE heap_increse_key(_, _, _)
heap_increse_key(s, k, node) ==
  IF SiftDownCond(s, k, node)
    THEN heap_increse_key(SwapBestChild(s, k, node, s.left[node], s.right[node]),
                          k, node)
    ELSE s

(* aux = aux->parent->left; while (aux->right) aux = aux->right; *)
LastNodeBeside(s, aux) ==
  IF aux = -1 THEN -1 ELSE DescendRight(s, s.left[s.parent[aux]])

heap_find_last_node(s) ==
  IF heap_perfect_log2(s.count + 1) = 0
    THEN DescendRight(s, s.root_node)
  ELSE IF (s.count + 1) % 2 = 0
    THEN LastNodeBeside(s, ClimbWhileLeft(s, s.last_node))
  ELSE s.last_node

(* heap->last_node = heap_find_last_node(heap); *)
StoreLast(s, found) == IF found = -1 THEN Segv(s) ELSE SetLastNode(s, found)

RecomputeLast(s) == StoreLast(s, heap_find_last_node(s))

(* mutant: the parent of the removed right child becomes last_node *)
LastFromLeftOf_parent(s, np) == SetLastNode(s, np)

(* heap->last_node = new_min->parent->left; *)
LastFromLeftOf(s, np) == SetLastNode(s, s.left[np])

(* The last node is unlinked from its parent np and last_node is set anew. *)
DetachLast(s, new_min, np) ==
  IF s.left[np] = new_min
    THEN RecomputeLast(SetLastNode(SetLeft(s, np, NULL), np))
    ELSE LastFromLeftOf(SetRight(s, np, NULL), np)

(* new_min takes the children and the place of min_node. *)
TakeRootPlace(s, min_node, new_min) ==
  LET t1 == AdoptLeft(LeftFrom(s, new_min, min_node), new_min)
      t2 == AdoptRight(RightFrom(t1, new_min, min_node), new_min)
  IN SetRoot(SetParent(t2, new_min, NULL), new_min)

(* heap_extract_min on a heap that keeps two or more nodes, from the unlinking
   of the last node up to the call of heap_increse_key; c is the heap with
   count already decremented. *)
Relocated(c, min_node, new_min) ==
  TakeRootPlace(DetachLast(c, new_min, c.parent[new_min]), min_node, new_min)

(* new_min takes the children and the place of min_node and is sifted down. *)
PromoteToRoot(s, k, min_node, new_min) ==
  IF s.segv THEN s
  ELSE heap_increse_key(TakeRootPlace(s, min_node, new_min), k, new_min)

(* heap_extract_min, the branch for a heap that keeps two or more nodes. *)
ExtractRelocate(c, k, min_node, new_min) ==
  IF new_min = NULL \/ c.parent[new_min] = NULL THEN Segv(c)
  ELSE PromoteToRoot(DetachLast(c, new_min, c.parent[new_min]), k, min_node, new_min)

(* mutant: with one node left, the new root keeps its parent link *)
ExtractBody_keeps_parent(c, k, min_node, new_min) ==
  IF c.count = 0 THEN SetRoot(SetLastNode(c, NULL), NULL)
  ELSE IF c.count = 1
    THEN IF new_min = NULL THEN Segv(c)
         ELSE SetRoot(SetLastNode(c, new_min), new_min)
  ELSE ExtractRelocate(c, k, min_node, new_min)

(* heap_extract_min after heap->count--: the three cases on count. *)
ExtractBody(c, k, min_node, new_min) ==
  IF c.count = 0 THEN SetRoot(SetLastNode(c, NULL), NULL)
  ELSE IF c.count = 1
    THEN IF new_min = NULL THEN Segv(c)
         ELSE SetParent(SetRoot(SetLastNode(c, new_min), new_min), new_min, NULL)
  ELSE ExtractRelocate(c, k, min_node, new_min)

(* mutant: the extracted node is returned without heap_init_node *)
ClearMin_skipped(s, min_node) == s

(* heap_init_node(min_node); *)
ClearMin(s, min_node) == IF s.segv THEN s ELSE heap_init_node(s, min_node)

(* mutant: the empty heap is not detected before count is decremented *)
heap_extract_min_no_empty_check(s, k) ==
  [s |-> ClearMin(ExtractBody(SetCount(s, s.count - 1), k, s.root_node, s.last_node),
                  s.root_node),
   ret |-> s.root_node]

(* Result: the new memory and heap, and the returned pointer. *)
heap_extract_min(s, k) ==
  IF s.root_node = NULL THEN [s |-> s, ret |-> NULL]
  ELSE [s |-> ClearMin(ExtractBody(SetCount(s, s.count - 1), k,
                                   s.root_node, s.last_node), s.root_node),
        ret |-> s.root_node]

(* ---------------- heap.h ---------------- *)

heap_get_size(hp) == hp.count

heap_get_root_node(hp) == hp.root_node

heap_is_empty(hp) == hp.count = 0

heap_is_node_added(hp, node) ==
  IF node # NULL
    THEN IF parent[node] # NULL \/ left[node] # NULL \/ right[node] # NULL
           THEN TRUE
           ELSE node = heap_get_root_node(hp)
    ELSE FALSE

(* ---------------- egressFile.c ---------------- *)

(* The configured egress interfaces olsr_cnf->smart_gw_egress_interfaces. *)
Ifaces == 1..NumIfs

(* The values of a modification time stamp; 0 is the all-zero stamp of
   cachedStatClear. *)
Stamps == 0..MaxTime

FileStamps == 1..MaxTime

(* What the egress file holds for one interface: no accepted line, or the
   values of the accepted line naming it.  Comments and lines the loop
   rejects with continue change nothing of an interface and are left out,
   as is the error reporting. *)
NoLine ==
  [accepted |-> FALSE, uplink |-> 0, downlink |-> 0, pathCosts |-> 0,
   network |-> 0, gateway |-> 0, networkSet |-> FALSE, gatewaySet |-> FALSE]

EgressLine(u) ==
  [accepted |-> TRUE, uplink |-> u, downlink |-> 1, pathCosts |-> 1,
   network |-> 1, gateway |-> 1, networkSet |-> TRUE, gatewaySet |-> TRUE]

EgressLines == {EgressLine(u) : u \in 0..MaxBw}

(* The results of egressBwCostsChanged, egressBwNetworkChanged,
   egressBwGatewayChanged and egressBwChanged for one interface.  The four
   functions are defined outside egressFile.c: any of these results is
   taken. *)
ChangeOutcomes ==
  {[costs |-> FALSE, network |-> FALSE, gateway |-> FALSE, bw |-> TRUE],
   [costs |-> TRUE, network |-> TRUE, gateway |-> FALSE, bw |-> FALSE]}

(* gw_costs_weigh is defined outside egressFile.c: the costs are kept as
   the term of its arguments. *)
gw_costs_weigh(up, path_cost, egressUk, egressDk) ==
  <<up, path_cost, egressUk, egressDk>>

egressBwCalculateCosts(bw, up) ==
  [bw EXCEPT !.costs = gw_costs_weigh(up, bw.path_cost, bw.egressUk, bw.egressDk)]

egressBwClear(bw, up) ==
  egressBwCalculateCosts(
    [bw EXCEPT !.egressUk = 0, !.egressDk = 0, !.path_cost = 0,
               !.network = 0, !.gateway = 0,
               !.networkSet = FALSE, !.gatewaySet = FALSE], up)

(* A struct egress_if_bw as the configuration leaves it before any read. *)
BwUnset ==
  [egressUk |-> 0, egressDk |-> 0, path_cost |-> 0, network |-> 0, gateway |-> 0,
   networkSet |-> FALSE, gatewaySet |-> FALSE, costs |-> 0]

IfUnset ==
  [bwCurrent |-> BwUnset, bwPrevious |-> BwUnset, bwCostsChanged |-> FALSE,
   bwNetworkChanged |-> FALSE, bwGatewayChanged |-> FALSE, bwChanged |-> FALSE,
   inEgressFile |-> FALSE, upCurrent |-> TRUE]

readEgressFileClear(ifs) ==
  [i \in Ifaces |->
     [ifs[i] EXCEPT !.bwPrevious = ifs[i].bwCurrent, !.bwCostsChanged = FALSE,
                    !.bwNetworkChanged = FALSE, !.bwGatewayChanged = FALSE,
                    !.bwChanged = FALSE, !.inEgressFile = FALSE]]

(* The end of the loop body of readEgressFile for an accepted line ln of
   interface eif.  The values of the lines are below MAX_SMARTGW_SPEED and
   UINT32_MAX, so the MIN caps leave them. *)
ReadLine(eif, ln) ==
  IF ln.uplink = 0 \/ ln.downlink = 0
    THEN [eif EXCEPT !.bwCurrent = egressBwClear(@, eif.upCurrent),
                     !.inEgressFile = TRUE]
    ELSE [eif EXCEPT !.bwCurrent =
                       egressBwCalculateCosts(
                         [@ EXCEPT !.egressUk = ln.uplink, !.egressDk = ln.downlink,
                                   !.path_cost = ln.pathCosts, !.network = ln.network,
                                   !.gateway = ln.gateway,
                                   !.networkSet = ln.networkSet,
                                   !.gatewaySet = ln.gatewaySet], eif.upCurrent),
                     !.inEgressFile = TRUE]

(* while (getline(...) != -1) { ... } *)
ReadLines(ifs, lines) ==
  [i \in Ifaces |-> IF lines[i].accepted THEN ReadLine(ifs[i], lines[i]) ELSE ifs[i]]

(* outerror: the loop that clears the interfaces absent from the file and
   sets the changed flags; chg[i] are the results of the four egressBw...
   Changed functions for interface i. *)
ClearAbsent(ifs, chg) ==
  [i \in Ifaces |->
     [ifs[i] EXCEPT !.bwCurrent = IF ifs[i].inEgressFile THEN @
                                  ELSE egressBwClear(@, ifs[i].upCurrent),
                    !.bwCostsChanged = chg[i].costs,
                    !.bwNetworkChanged = chg[i].network,
                    !.bwGatewayChanged = chg[i].gateway,
                    !.bwChanged = chg[i].bw]]

(* The return value: changed is set when some bwChanged is. *)
AnyChanged(ifs) == \E i \in Ifaces : ifs[i].bwChanged

(* mutant: a failure leaves the cached time stamp as it is *)
ReadFailed_keeps_stamp(r, chg, path) ==
  [r |-> [r EXCEPT !.ifs = ClearAbsent(readEgressFileClear(r.ifs), chg),
                   !.gw_costs_weights = TRUE],
   ret |-> AnyChanged(ClearAbsent(readEgressFileClear(r.ifs), chg)),
   path |-> path]

(* memset(&cachedStat.timeStamp, 0, ...); readEgressFileClear();
   goto outerror; *)
ReadFailed(r, chg, path) ==
  [r |-> [r EXCEPT !.cachedStat = 0,
                   !.ifs = ClearAbsent(readEgressFileClear(r.ifs), chg),
                   !.gw_costs_weights = TRUE],
   ret |-> AnyChanged(ClearAbsent(readEgressFileClear(r.ifs), chg)),
   path |-> path]

(* The time stamp memcpy-ed into cachedStat after the read: statBuf was
   filled by stat() only when the file was read before (cachedStat is not
   the cleared stamp); otherwise statBuf is uninitialised and the stamp is
   whatever it holds, the value junk. *)
StampAfterRead(r, f, junk) == IF r.cachedStat # 0 THEN f.mtime ELSE junk

(* readEgressFile from fopen on, the file being opened. *)
ReadOpened(r, f, junk, chg) ==
  [r |-> [r EXCEPT !.ifs = ClearAbsent(ReadLines(readEgressFileClear(r.ifs), f.lines),
                                       chg),
                   !.cachedStat = StampAfterRead(r, f, junk),
                   !.gw_costs_weights = TRUE],
   ret |-> AnyChanged(ClearAbsent(ReadLines(readEgressFileClear(r.ifs), f.lines), chg)),
   path |-> "read"]

(* Result: the reader's variables, the return value, and the path taken:
   "unchanged", "stat_failed", "open_failed" or "read".  The file f is
   "readable", "unreadable" (stat succeeds, fopen fails) or "absent" (both
   fail). *)
readEgressFile(r, f, junk, chg) ==
  IF r.cachedStat # 0 /\ f.state = "absent"
    THEN ReadFailed(r, chg, "stat_failed")
  ELSE IF r.cachedStat # 0 /\ r.cachedStat = f.mtime
    THEN [r |-> r, ret |-> FALSE, path |-> "unchanged"]
  ELSE IF f.state # "readable"
    THEN ReadFailed(r, chg, "open_failed")
  ELSE ReadOpened(r, f, junk, chg)

(* startEgressFile after both regcomp calls have succeeded. *)
StartCompiled(r, f, junk, chg) ==
  LET rd == readEgressFile([r EXCEPT !.compiledRegexEgress = TRUE, !.cachedStat = 0],
                           f, junk, chg)
  IN [r |-> [rd.r EXCEPT !.egress_file_timer = "timer", !.timers = @ + 1,
                         !.started = TRUE],
      ret |-> TRUE, path |-> rd.path]

(* mutant: the line buffer is not freed when the second regcomp fails *)
StartAllocated_leaks(r, f, commentOk, egressOk, junk, chg) ==
  IF ~commentOk
    THEN [r |-> [r EXCEPT !.line = "NULL", !.buffers = @ - 1],
          ret |-> FALSE, path |-> "none"]
  ELSE IF ~egressOk
    THEN [r |-> [r EXCEPT !.line = "NULL"], ret |-> FALSE, path |-> "none"]
  ELSE StartCompiled([r EXCEPT !.compiledRegexComment = TRUE], f, junk, chg)

(* startEgressFile after the line buffer was allocated; commentOk, egressOk
   tell whether the two regcomp calls return 0. *)
StartAllocated(r, f, commentOk, egressOk, junk, chg) ==
  IF ~commentOk
    THEN [r |-> [r EXCEPT !.line = "NULL", !.buffers = @ - 1],
          ret |-> FALSE, path |-> "none"]
  ELSE IF ~egressOk
    THEN [r |-> [r EXCEPT !.line = "NULL", !.buffers = @ - 1],
          ret |-> FALSE, path |-> "none"]
  ELSE StartCompiled([r EXCEPT !.compiledRegexComment = TRUE], f, junk, chg)

(* mallocOk tells whether malloc returns a buffer. *)
startEgressFile(r, f, mallocOk, commentOk, egressOk, junk, chg) ==
  IF r.started THEN [r |-> r, ret |-> TRUE, path |-> "none"]
  ELSE IF ~mallocOk
    THEN [r |-> [r EXCEPT !.line = "NULL"], ret |-> FALSE, path |-> "none"]
  ELSE StartAllocated([r EXCEPT !.line = "buffer", !.buffers = @ + 1],
                      f, commentOk, egressOk, junk, chg)

stopEgressFile(r) ==
  IF r.started
    THEN [r EXCEPT !.egress_file_timer = "NULL", !.timers = @ - 1,
                   !.compiledRegexEgress = FALSE, !.compiledRegexComment = FALSE,
                   !.line = "freed", !.buffers = @ - 1, !.started = FALSE]
    ELSE r

(* The static variables of egressFile.c and the interface list before
   startEgressFile is called: buffers counts the line buffers allocated and
   not freed, timers the timers registered with the scheduler and not
   stopped. *)
ReaderUnstarted ==
  [started |-> FALSE, line |-> "NULL", buffers |-> 0,
   compiledRegexComment |-> FALSE, compiledRegexEgress |-> FALSE,
   egress_file_timer |-> "NULL", timers |-> 0, cachedStat |-> 0,
   gw_costs_weights |-> FALSE, ifs |-> [i \in Ifaces |-> IfUnset]]

(* The record of the last call of readEgressFile: the path it took, and the
   modification time the file had when the reader last read it, 0 when the
   last call that went for the file failed. *)
NoPoll == [path |-> "none", readStamp |-> 0]

ReaderInit ==
  /\ reader = ReaderUnstarted
  /\ file = [state |-> "absent", mtime |-> 1, lines |-> [i \in Ifaces |-> NoLine]]
  /\ poll = NoPoll

(* ---------------- state machine ---------------- *)

EmptyHeap == [count |-> 0, root_node |-> NULL, last_node |-> NULL]

(* The call in progress when the functions are followed statement by
   statement: the place in the code, the locals node, min_node and aux, the
   loop iterations made so far by the navigator walks and by the sift loops,
   and the depth or height measured when the sift began. *)
IdleCall ==
  [pc |-> "idle", node |-> NULL, min_node |-> NULL, aux |-> NULL,
   walk |-> 0, swaps |-> 0, limit |-> 0]

(* Every heap after heap_init, every node after heap_init_node, keys set. *)
Init ==
  /\ key \in [Nodes -> Keys]
  /\ parent = [n \in Nodes |-> NULL]
  /\ left = [n \in Nodes |-> NULL]
  /\ right = [n \in Nodes |-> NULL]
  /\ heap = [h \in Heaps |-> EmptyHeap]
  /\ crashed = FALSE
  /\ queued = [h \in Heaps |-> {}]
  /\ lastOp = "heap_init"
  /\ opHeap = "A"
  /\ opNode = NULL
  /\ ret = NULL
  /\ call = IdleCall
  /\ ReaderInit

(* Write back the result of a heap function on heap h. *)
Commit(h, t) ==
  /\ parent' = t.parent
  /\ left' = t.left
  /\ right' = t.right
  /\ heap' = [heap EXCEPT ![h] = [count |-> t.count, root_node |-> t.root_node,
                                  last_node |-> t.last_node]]
  /\ crashed' = t.segv

(* The node memory as the caller's store node->key = k leaves it. *)
WithKey(s, node, k) == [s EXCEPT !.key[node] = k]

(* The key fields as a whole call leaves them. *)
CommitKeys(t) == key' = t.key

AllQueued == UNION {queued[h] : h \in Heaps}

(* The caller sets node->key = k and calls heap_insert(h, node). *)
Insert(h, node, k) ==
  /\ ~crashed
  /\ node \notin AllQueued
  /\ LET t == heap_insert(WithKey(View(h), node, k), [key EXCEPT ![node] = k], node)
     IN Commit(h, t) /\ CommitKeys(t)
  /\ queued' = [queued EXCEPT ![h] = @ \cup {node}]
  /\ lastOp' = "heap_insert"
  /\ opHeap' = h
  /\ opNode' = node
  /\ ret' = NULL
  /\ UNCHANGED <<call, reader, file, poll>>

(* The caller lowers node->key to k (or leaves it) and calls heap_decrease_key. *)
DecreaseKey(h, node, k) ==
  /\ ~crashed
  /\ node \in queued[h]
  /\ k <= key[node]
  /\ LET t == heap_decrease_key(WithKey(View(h), node, k), [key EXCEPT ![node] = k],
                                node)
     IN Commit(h, t) /\ CommitKeys(t)
  /\ UNCHANGED queued
  /\ lastOp' = "heap_decrease_key"
  /\ opHeap' = h
  /\ opNode' = node
  /\ ret' = NULL
  /\ UNCHANGED <<call, reader, file, poll>>

ExtractMin(h) ==
  /\ ~crashed
  /\ LET res == heap_extract_min(View(h), key)
     IN /\ Commit(h, res.s)
        /\ CommitKeys(res.s)
        /\ ret' = res.ret
        /\ queued' = [queued EXCEPT ![h] = @ \ {res.ret}]
  /\ lastOp' = "heap_extract_min"
  /\ opHeap' = h
  /\ opNode' = heap[h].last_node
  /\ UNCHANGED <<call, reader, file, poll>>

Next ==
  \/ \E node \in Nodes, k \in Keys : Insert("A", node, k)
  \/ \E node \in Nodes, k \in Keys : DecreaseKey("A", node, k)
  \/ ExtractMin("A")

Spec == Init /\ [][Next]_vars

(* Two heaps in use over the same node storage. *)
TwoHeapNodeSet == 1..TwoHeapNodes

NextTwoHeaps ==
  \/ \E h \in Heaps, node \in TwoHeapNodeSet, k \in Keys : Insert(h, node, k)
  \/ \E h \in Heaps, node \in TwoHeapNodeSet, k \in Keys : DecreaseKey(h, node, k)
  \/ \E h \in Heaps : ExtractMin(h)

SpecTwoHeaps == Init /\ [][NextTwoHeaps]_vars

(* A heap that is only filled: FillNodes nodes are inserted one after the
   other into the empty heap A, each with any key.  The nodes are taken in
   the order of their numbers; the heap functions never compare node
   identities, so any other order gives the same trees up to renaming. *)
FillNodeSet == 1..FillNodes

InitFill ==
  /\ key \in [FillNodeSet -> Keys]
  /\ parent = [n \in FillNodeSet |-> NULL]
  /\ left = [n \in FillNodeSet |-> NULL]
  /\ right = [n \in FillNodeSet |-> NULL]
  /\ heap = [h \in Heaps |-> EmptyHeap]
  /\ crashed = FALSE
  /\ queued = [h \in Heaps |-> {}]
  /\ lastOp = "heap_init"
  /\ opHeap = "A"
  /\ opNode = NULL
  /\ ret = NULL
  /\ call = IdleCall
  /\ ReaderInit

NextFill ==
  \E k \in Keys :
    /\ heap["A"].count < FillNodes
    /\ Insert("A", heap["A"].count + 1, k)

SpecFill == InitFill /\ [][NextFill]_vars

(* ---------------- the calls followed statement by statement ------------ *)

(* The number of parent links from node n up to the root. *)
RECURSIVE Depth(_, _)
Depth(s, n) == IF n = NULL \/ s.parent[n] = NULL THEN 0 ELSE 1 + Depth(s, s.parent[n])

(* The height of a complete tree of c nodes (0 for one node). *)
Height(c) == IF c <= 1 THEN 0 ELSE Log2Loop(c)

StepNodeSet == 1..StepNodes

Running == call.pc # "idle"

(* What the steps of a call in progress leave alone: the record of the last
   whole call and the egress file reader. *)
LastCallRecord == <<lastOp, opHeap, opNode, ret, reader, file, poll>>

CallFrame == <<key, queued, lastOp, opHeap, opNode, ret, reader, file, poll>>

(* A NULL pointer is dereferenced: the call does not go on. *)
StepCrash ==
  /\ crashed' = TRUE
  /\ UNCHANGED <<parent, left, right, heap>>

Goto(pc, aux) == call' = [call EXCEPT !.pc = pc, !.aux = aux]

Walk(aux) == call' = [call EXCEPT !.aux = aux, !.walk = @ + 1]

(* heap_insert up to the choice of the navigator's branch. *)
StepInsert(node, k) ==
  /\ ~crashed /\ ~Running
  /\ node \notin AllQueued
  /\ key' = [key EXCEPT ![node] = k]
  /\ queued' = [queued EXCEPT !["A"] = @ \cup {node}]
  /\ UNCHANGED LastCallRecord
  /\ LET s == heap_init_node(View("A"), node)
         c == [IdleCall EXCEPT !.node = node]
     IN IF s.count = 0
          THEN /\ Commit("A", IncCount(SetLastNode(SetRoot(s, node), node)))
               /\ call' = IdleCall
        ELSE IF heap_perfect_log2(s.count + 1) = 0
          THEN /\ Commit("A", s)
               /\ call' = [c EXCEPT !.pc = "parent_descend", !.aux = s.root_node]
        ELSE IF (s.count + 1) % 2 = 0
          THEN /\ Commit("A", s)
               /\ call' = [c EXCEPT !.pc = "parent_climb", !.aux = s.last_node]
        ELSE IF s.last_node = NULL THEN StepCrash /\ call' = c
        ELSE /\ Commit("A", s)
             /\ call' = [c EXCEPT !.pc = "attach", !.aux = s.parent[s.last_node]]

(* while (aux->left) aux = aux->left;  return aux;   (both such loops of
   heap_find_parent_insert_node) *)
ParentDescend ==
  /\ ~crashed /\ call.pc = "parent_descend"
  /\ UNCHANGED CallFrame
  /\ IF call.aux = NULL THEN StepCrash /\ UNCHANGED call
     ELSE /\ UNCHANGED <<parent, left, right, heap, crashed>>
          /\ IF left[call.aux] # NULL THEN Walk(left[call.aux])
             ELSE Goto("attach", call.aux)

(* while (aux->parent->right == aux) aux = aux->parent;
   if (!aux->parent->right) return aux->parent;  aux = aux->parent->right; *)
ParentClimb ==
  /\ ~crashed /\ call.pc = "parent_climb"
  /\ UNCHANGED CallFrame
  /\ IF call.aux = NULL \/ parent[call.aux] = NULL THEN StepCrash /\ UNCHANGED call
     ELSE /\ UNCHANGED <<parent, left, right, heap, crashed>>
          /\ IF right[parent[call.aux]] = call.aux THEN Walk(parent[call.aux])
             ELSE IF right[parent[call.aux]] = NULL
               THEN Goto("attach", parent[call.aux])
             ELSE Goto("parent_descend", right[parent[call.aux]])

(* heap_insert from the attachment under the parent found (aux), and
   heap_decrease_key down to the head of its loop. *)
Attach ==
  /\ ~crashed /\ call.pc = "attach"
  /\ UNCHANGED CallFrame
  /\ IF call.aux = NULL THEN StepCrash /\ UNCHANGED call
     ELSE LET b == Attached(View("A"), call.node, call.aux)
          IN /\ Commit("A", LastToParent(b, key, call.node))
             /\ call' = [call EXCEPT !.pc = "sift_up", !.swaps = 0,
                                     !.limit = Depth(b, call.node)]

(* heap_decrease_key down to the head of its loop. *)
StepDecreaseKey(node, k) ==
  /\ ~crashed /\ ~Running
  /\ node \in queued["A"]
  /\ k <= key[node]
  /\ key' = [key EXCEPT ![node] = k]
  /\ UNCHANGED queued
  /\ UNCHANGED LastCallRecord
  /\ IF parent[node] = NULL
       THEN /\ UNCHANGED <<parent, left, right, heap, crashed>>
            /\ call' = IdleCall
       ELSE /\ Commit("A", LastToParent(View("A"), [key EXCEPT ![node] = k], node))
            /\ call' = [IdleCall EXCEPT !.pc = "sift_up", !.node = node,
                                        !.limit = Depth(View("A"), node)]

(* One evaluation of the loop condition of heap_decrease_key and, when it
   holds, one pass through the loop body. *)
SiftUp ==
  /\ ~crashed /\ call.pc = "sift_up"
  /\ UNCHANGED CallFrame
  /\ IF SiftUpCond(View("A"), key, call.node)
       THEN /\ Commit("A", SiftUpStep(View("A"), call.node, parent[call.node],
                                      left[call.node], right[call.node]))
            /\ call' = [call EXCEPT !.swaps = @ + 1]
       ELSE /\ UNCHANGED <<parent, left, right, heap, crashed>>
            /\ call' = IdleCall

(* if (new_min->parent->left == new_min) { ...->left = NULL; last_node =
   new_min->parent; } else { ...->right = NULL; last_node = ...->left; } *)
UnlinkLast(c, new_min, np) ==
  IF c.left[np] = new_min
    THEN SetLastNode(SetLeft(c, np, NULL), np)
    ELSE LastFromLeftOf(SetRight(c, np, NULL), np)

(* Where heap_extract_min goes after unlinking the last node: into one of the
   walks of heap_find_last_node, or on to the relocation. *)
AfterUnlink(c, t, new_min, np) ==
  IF c.left[np] # new_min THEN <<"relocate", NULL>>
  ELSE IF heap_perfect_log2(t.count + 1) = 0 THEN <<"last_descend", t.root_node>>
  ELSE IF (t.count + 1) % 2 = 0 THEN <<"last_climb", t.last_node>>
  ELSE <<"store_last", t.last_node>>

(* heap_extract_min up to the unlinking of the last node. *)
StepExtractMin ==
  /\ ~crashed /\ ~Running
  /\ UNCHANGED key
  /\ UNCHANGED LastCallRecord
  /\ queued' = [queued EXCEPT !["A"] = @ \ {heap["A"].root_node}]
  /\ LET s == View("A")
         c == SetCount(s, s.count - 1)
         new_min == s.last_node
         np == s.parent[new_min]
         t == UnlinkLast(c, new_min, np)
         to == AfterUnlink(c, t, new_min, np)
     IN IF s.root_node = NULL \/ c.count <= 1
          THEN /\ Commit("A", heap_extract_min(s, key).s)
               /\ call' = IdleCall
        ELSE IF np = NULL THEN StepCrash /\ call' = IdleCall
        ELSE /\ Commit("A", t)
             /\ call' = [IdleCall EXCEPT !.pc = to[1], !.aux = to[2], !.node = new_min,
                                         !.min_node = s.root_node]

(* while (aux->parent->left == aux) aux = aux->parent;  aux = aux->parent->left; *)
LastClimb ==
  /\ ~crashed /\ call.pc = "last_climb"
  /\ UNCHANGED CallFrame
  /\ IF call.aux = NULL \/ parent[call.aux] = NULL THEN StepCrash /\ UNCHANGED call
     ELSE /\ UNCHANGED <<parent, left, right, heap, crashed>>
          /\ IF left[parent[call.aux]] = call.aux THEN Walk(parent[call.aux])
             ELSE Goto("last_descend", left[parent[call.aux]])

(* while (aux->right) aux = aux->right; *)
LastDescend ==
  /\ ~crashed /\ call.pc = "last_descend"
  /\ UNCHANGED CallFrame
  /\ IF call.aux = NULL THEN StepCrash /\ UNCHANGED call
     ELSE /\ UNCHANGED <<parent, left, right, heap, crashed>>
          /\ IF right[call.aux] # NULL THEN Walk(right[call.aux])
             ELSE Goto("store_last", call.aux)

(* heap->last_node = heap_find_last_node(heap); *)
StoreLastStep ==
  /\ ~crashed /\ call.pc = "store_last"
  /\ UNCHANGED CallFrame
  /\ Commit("A", SetLastNode(View("A"), call.aux))
  /\ Goto("relocate", NULL)

(* new_min takes the place of min_node; heap_increse_key is entered. *)
Relocate ==
  /\ ~crashed /\ call.pc = "relocate"
  /\ UNCHANGED CallFrame
  /\ Commit("A", TakeRootPlace(View("A"), call.min_node, call.node))
  /\ call' = [call EXCEPT !.pc = "sift_down", !.swaps = 0,
                          !.limit = Height(heap["A"].count)]

(* One entry of heap_increse_key: a rotation and the recursive call, or the
   return to heap_extract_min, which clears and returns min_node. *)
SiftDown ==
  /\ ~crashed /\ call.pc = "sift_down"
  /\ UNCHANGED CallFrame
  /\ IF SiftDownCond(View("A"), key, call.node)
       THEN /\ Commit("A", SwapBestChild(View("A"), key, call.node,
                                         left[call.node], right[call.node]))
            /\ call' = [call EXCEPT !.swaps = @ + 1]
       ELSE /\ Commit("A", heap_init_node(View("A"), call.min_node))
            /\ call' = IdleCall

(* The statements of a call that is in progress. *)
CallStep ==
  \/ ParentDescend
  \/ ParentClimb
  \/ Attach
  \/ SiftUp
  \/ LastClimb
  \/ LastDescend
  \/ StoreLastStep
  \/ Relocate
  \/ SiftDown

NextSteps ==
  \/ \E node \in StepNodeSet, k \in Keys : StepInsert(node, k)
  \/ \E node \in StepNodeSet, k \in Keys : StepDecreaseKey(node, k)
  \/ StepExtractMin
  \/ CallStep

(* As Init, with one value in the key fields, which no function reads before
   the caller of heap_insert has set them. *)
InitSteps ==
  /\ key = [n \in Nodes |-> MaxKey]
  /\ parent = [n \in Nodes |-> NULL]
  /\ left = [n \in Nodes |-> NULL]
  /\ right = [n \in Nodes |-> NULL]
  /\ heap = [h \in Heaps |-> EmptyHeap]
  /\ crashed = FALSE
  /\ queued = [h \in Heaps |-> {}]
  /\ lastOp = "heap_init"
  /\ opHeap = "A"
  /\ opNode = NULL
  /\ ret = NULL
  /\ call = IdleCall
  /\ ReaderInit

(* A call that was entered runs on: the code is sequential and nothing
   suspends it. *)
SpecSteps == InitSteps /\ [][NextSteps]_vars /\ WF_vars(CallStep)

(* The calls followed statement by statement over more key values and fewer
   nodes, so that a node and its two children can hold three different keys.
   heap_insert takes the free node of the lowest number; the heap functions
   never compare node identities. *)
SiftNodeSet == 1..SiftNodes

SiftKeySet == 1..SiftKeys

NextFree == CHOOSE n \in SiftNodeSet \ AllQueued :
              \A m \in SiftNodeSet \ AllQueued : n <= m

NextSift ==
  \/ \E k \in SiftKeySet :
       /\ SiftNodeSet \ AllQueued # {}
       /\ StepInsert(NextFree, k)
  \/ \E node \in SiftNodeSet, k \in SiftKeySet : StepDecreaseKey(node, k)
  \/ StepExtractMin
  \/ CallStep

SpecSift == InitSteps /\ [][NextSift]_vars

(* A caller that calls heap_init again on a heap in use, and heap_init_node
   on nodes that are in no heap. *)
ReinitNodeSet == 1..ReinitNodes

(* heap_init(h) at any time: the heap holds no node afterwards. *)
HeapInit(h) ==
  /\ ~crashed
  /\ LET t == heap_init(View(h))
     IN Commit(h, t) /\ CommitKeys(t)
  /\ queued' = [queued EXCEPT ![h] = {}]
  /\ lastOp' = "heap_init"
  /\ opHeap' = h
  /\ opNode' = NULL
  /\ ret' = NULL
  /\ UNCHANGED <<call, reader, file, poll>>

(* heap_init_node(node) on a node that is in no heap. *)
InitNode(node) ==
  /\ ~crashed
  /\ node \notin AllQueued
  /\ LET t == heap_init_node(View("A"), node)
     IN Commit("A", t) /\ CommitKeys(t)
  /\ UNCHANGED queued
  /\ lastOp' = "heap_init_node"
  /\ opHeap' = "A"
  /\ opNode' = node
  /\ ret' = NULL
  /\ UNCHANGED <<call, reader, file, poll>>

NextReinit ==
  \/ \E node \in ReinitNodeSet, k \in Keys : Insert("A", node, k)
  \/ ExtractMin("A")
  \/ HeapInit("A")
  \/ \E node \in ReinitNodeSet : InitNode(node)

SpecReinit == InitSteps /\ [][NextReinit]_vars

(* A caller that inserts nodes it has never passed to heap_init_node: the
   three link fields of the node hold whatever the memory held, any of the
   nodes or NULL, and not NULL in all three. *)
RawNodeSet == 1..RawNodes

RawLinks == RawNodeSet \cup {NULL}

(* The node memory with the link fields of node holding p, l, r. *)
WithLinks(s, node, p, l, r) ==
  [s EXCEPT !.parent[node] = p, !.left[node] = l, !.right[node] = r]

(* node->key = k; heap_insert(h, node) on a node with links p, l, r. *)
InsertRaw(h, node, k, p, l, r) ==
  /\ ~crashed
  /\ node \notin AllQueued
  /\ <<p, l, r>> # <<NULL, NULL, NULL>>
  /\ LET t == heap_insert(WithLinks(WithKey(View(h), node, k), node, p, l, r),
                          [key EXCEPT ![node] = k], node)
     IN Commit(h, t) /\ CommitKeys(t)
  /\ queued' = [queued EXCEPT ![h] = @ \cup {node}]
  /\ lastOp' = "heap_insert"
  /\ opHeap' = h
  /\ opNode' = node
  /\ ret' = NULL
  /\ UNCHANGED <<call, reader, file, poll>>

NextRaw ==
  \/ \E node \in RawNodeSet, k \in Keys :
       \E p \in RawLinks, l \in RawLinks, r \in RawLinks :
         InsertRaw("A", node, k, p, l, r)
  \/ ExtractMin("A")

SpecRaw == InitSteps /\ [][NextRaw]_vars

(* The egress file reader in use: the plugin starts and stops it, the
   scheduler runs its timer, and the file is written, removed or made
   unreadable by others. *)
Polled(res, f) ==
  IF res.path \in {"none", "unchanged"} THEN [poll EXCEPT !.path = res.path]
  ELSE [path |-> res.path, readStamp |-> IF res.path = "read" THEN f.mtime ELSE 0]

StartEgressFile(mallocOk, commentOk, egressOk, junk, chg) ==
  /\ LET res == startEgressFile(reader, file, mallocOk, commentOk, egressOk, junk, chg)
     IN /\ reader' = res.r
        /\ poll' = Polled(res, file)
  /\ UNCHANGED file
  /\ UNCHANGED HeapVars

StopEgressFile ==
  /\ reader' = stopEgressFile(reader)
  /\ poll' = [poll EXCEPT !.path = "none"]
  /\ UNCHANGED file
  /\ UNCHANGED HeapVars

(* egress_file_timer_callback, run by the scheduler while the timer is
   registered. *)
TimerCallback(junk, chg) ==
  /\ reader.timers > 0
  /\ LET res == readEgressFile(reader, file, junk, chg)
     IN /\ reader' = res.r
        /\ poll' = Polled(res, file)
  /\ UNCHANGED file
  /\ UNCHANGED HeapVars

(* The file is written (its modification time changes), removed, or its
   permissions change. *)
FileChange(state, mtime, lines) ==
  /\ file' = [state |-> state, mtime |-> mtime, lines |-> lines]
  /\ file' # file
  /\ (lines # file.lines => mtime # file.mtime)
  /\ UNCHANGED <<reader, poll>>
  /\ UNCHANGED HeapVars

FileStates == {"readable", "unreadable", "absent"}

(* The first interface has no line, a line with a zero uplink, or a line
   with bandwidths; the others have no line or a line with bandwidths. *)
FileLines ==
  {lines \in [Ifaces -> EgressLines \cup {NoLine}] :
     \A i \in Ifaces \ {1} : lines[i] \in {NoLine, EgressLine(MaxBw)}}

NextEgress ==
  \/ \E mallocOk \in BOOLEAN :
       \E commentOk \in IF mallocOk THEN BOOLEAN ELSE {TRUE} :
       \E egressOk \in IF commentOk THEN BOOLEAN ELSE {TRUE} :
       \E junk \in IF mallocOk /\ commentOk /\ egressOk THEN Stamps ELSE {0} :
       \E chg \in IF mallocOk /\ commentOk /\ egressOk
                     THEN [Ifaces -> ChangeOutcomes]
                     ELSE {[i \in Ifaces |-> CHOOSE c \in ChangeOutcomes : TRUE]} :
         StartEgressFile(mallocOk, commentOk, egressOk, junk, chg)
  \/ StopEgressFile
  \/ \E junk \in Stamps, chg \in [Ifaces -> ChangeOutcomes] : TimerCallback(junk, chg)
  \/ \E state \in FileStates, mtime \in FileStamps, lines \in FileLines :
       FileChange(state, mtime, lines)

SpecEgress == InitSteps /\ [][NextEgress]_vars

(* A heap of up to ClimbNodes nodes, deep enough for the navigator's walk
   up from last_node to pass more than one level.  The heap is filled and
   then drained: the nodes are inserted in the order of their numbers, each
   with any key, and once the caller has begun to extract the minimum it
   inserts no more. *)
ClimbNodeSet == 1..ClimbNodes

InitClimb ==
  /\ key = [n \in ClimbNodeSet |-> MaxKey]
  /\ parent = [n \in ClimbNodeSet |-> NULL]
  /\ left = [n \in ClimbNodeSet |-> NULL]
  /\ right = [n \in ClimbNodeSet |-> NULL]
  /\ heap = [h \in Heaps |-> EmptyHeap]
  /\ crashed = FALSE
  /\ queued = [h \in Heaps |-> {}]
  /\ lastOp = "heap_init"
  /\ opHeap = "A"
  /\ opNode = NULL
  /\ ret = NULL
  /\ call = IdleCall
  /\ ReaderInit

NextClimb ==
  \/ \E k \in Keys :
       /\ lastOp # "heap_extract_min"
       /\ heap["A"].count < ClimbNodes
       /\ Insert("A", heap["A"].count + 1, k)
  \/ ExtractMin("A")

SpecClimb == InitClimb /\ [][NextClimb]_vars

(* A caller that writes any key into a queued node at any time, with or
   without calling heap_decrease_key afterwards: the heap functions are
   applied to heaps whose keys are in any order. *)
AnyKeyNodeSet == 1..AnyKeyNodes

(* node->key = k;  by the owner of a queued node, no heap function called. *)
WriteKey(node, k) ==
  /\ ~crashed
  /\ node \in queued["A"]
  /\ k # key[node]
  /\ key' = [key EXCEPT ![node] = k]
  /\ lastOp' = "key_write"
  /\ opNode' = node
  /\ UNCHANGED <<parent, left, right, heap, crashed, queued, opHeap, ret, call>>
  /\ UNCHANGED ReaderVars

NextAnyKeys ==
  \/ \E node \in AnyKeyNodeSet, k \in Keys : Insert("A", node, k)
  \/ \E node \in AnyKeyNodeSet, k \in Keys : WriteKey(node, k)
  \/ \E node \in AnyKeyNodeSet : DecreaseKey("A", node, key[node])
  \/ ExtractMin("A")

SpecAnyKeys == InitSteps /\ [][NextAnyKeys]_vars

(* ---------------- notions the properties are stated in ---------------- *)

Root(h) == heap[h].root_node
Last(h) == heap[h].last_node
Count(h) == heap[h].count

Children(S) == ({left[n] : n \in S} \cup {right[n] : n \in S}) \ {NULL}

RECURSIVE Closure(_, _)
Closure(S, fuel) ==
  IF fuel = 0 \/ Children(S) \subseteq S THEN S
  ELSE Closure(S \cup Children(S), fuel - 1)

(* The nodes reachable from root_node through left/right links. *)
Reachable(h) == IF Root(h) = NULL THEN {} ELSE Closure({Root(h)}, NumNodes)

(* The node at level-order position p (1 is the root, 2p / 2p+1 the children). *)
RECURSIVE NodeAt(_, _)
NodeAt(h, p) ==
  IF p <= 1 THEN Root(h)
  ELSE LET q == NodeAt(h, p \div 2)
       IN IF q = NULL THEN NULL
          ELSE IF p % 2 = 0 THEN left[q] ELSE right[q]

(* The node at level-order position p in the memory and heap s. *)
RECURSIVE NodeAtIn(_, _)
NodeAtIn(s, p) ==
  IF p <= 1 THEN s.root_node
  ELSE LET q == NodeAtIn(s, p \div 2)
       IN IF q = NULL THEN NULL
          ELSE IF p % 2 = 0 THEN s.left[q] ELSE s.right[q]

(* The level-order position of node n in heap h, 0 when it has none. *)
PosOf(h, n) ==
  IF \E p \in 1..NumNodes : NodeAt(h, p) = n
    THEN CHOOSE p \in 1..NumNodes : NodeAt(h, p) = n
    ELSE 0

(* Position a lies on the path from the root to position p (p included). *)
RECURSIVE OnPath(_, _)
OnPath(a, p) == p >= a /\ (p = a \/ OnPath(a, p \div 2))

(* C1: shape invariant -- the nodes reachable from root_node occupy exactly
   the level-order positions 1..count, one node each (a complete binary tree:
   every level full except possibly the last, filled left to right). *)
ShapeInvariant ==
  /\ Count("A") \in 0..NumNodes
  /\ \A p \in 1..Count("A") : NodeAt("A", p) # NULL
  /\ \A p \in (Count("A") + 1)..(2 * Count("A") + 1) : NodeAt("A", p) = NULL
  /\ \A p, q \in 1..Count("A") : p # q => NodeAt("A", p) # NodeAt("A", q)
  /\ Reachable("A") = {NodeAt("A", p) : p \in 1..Count("A")}

(* Five nodes left by an extraction from a six-node heap: the removed last
   node was a left child at position 6, which is neither on the left spine
   nor a right child, and the relocated node was sifted down from the root. *)
ShapeWitness ==
  /\ lastOp = "heap_extract_min"
  /\ ret # NULL
  /\ Count("A") = 5
  /\ NodeAt("A", 5) # NULL
  /\ NodeAt("A", 6) = NULL
  /\ Root("A") # opNode

(* C2: order invariant -- every queued node that has a parent has a key that
   is not smaller than its parent's key (equal keys allowed). *)
OrderInvariant ==
  \A n \in Reachable("A") : parent[n] # NULL => key[parent[n]] <= key[n]

(* A sift-up that carried the decreased node from the bottom level to the
   root above a parent with an equal-keyed sibling. *)
OrderWitness ==
  /\ lastOp = "heap_decrease_key"
  /\ Count("A") >= 4
  /\ Root("A") = opNode
  /\ \E n \in Reachable("A") : key[n] > key[opNode]
  /\ \E n \in Reachable("A") \ {opNode} : key[n] = key[opNode]

(* C3: min correctness -- heap_extract_min on a non-empty heap returns a
   queued node whose key is <= the key of every node queued at the time of
   the call, and an extraction that directly follows another one returns a
   key that is not smaller than the one returned before (draining yields
   the keys in non-decreasing order). *)
MinCorrectness ==
  [][(ExtractMin("A") /\ Count("A") > 0) =>
       /\ ret' \in Reachable("A")
       /\ \A n \in Reachable("A") : key[ret'] <= key[n]
       /\ (lastOp = "heap_extract_min" /\ ret # NULL) => key[ret] <= key[ret']]_vars

(* An extraction that returned a minimum that has a duplicate still queued,
   with a larger key queued too. *)
MinWitness ==
  /\ lastOp = "heap_extract_min"
  /\ ret # NULL
  /\ Count("A") >= 3
  /\ \A n \in Reachable("A") : key[ret] <= key[n]
  /\ \E n \in Reachable("A") : key[n] = key[ret]
  /\ \E n \in Reachable("A") : key[n] > key[ret]

(* C4: last-pointer validity -- on a non-empty heap last_node is the node at
   level-order position count. *)
LastPointerValid ==
  Count("A") >= 1 => Last("A") = NodeAt("A", Count("A"))

(* An extraction that removed a last node that was a left child (position 6),
   recomputed last_node by the climbing walk, and whose sift-down then
   promoted the node that had become last, so that the relocated node ends as
   last_node again. *)
LastPointerWitness ==
  /\ lastOp = "heap_extract_min"
  /\ Count("A") = 5
  /\ Last("A") = opNode
  /\ NodeAt("A", 5) = opNode

(* C5: count fidelity -- heap_get_size equals the number of nodes reachable
   from root_node, and heap_is_empty holds exactly when that number is 0. *)
CountFidelity ==
  /\ heap_get_size(heap["A"]) = Cardinality(Reachable("A"))
  /\ heap_is_empty(heap["A"]) <=> Cardinality(Reachable("A")) = 0

(* A heap that was filled and has shrunk again by extraction. *)
CountWitness ==
  /\ lastOp = "heap_extract_min"
  /\ ret # NULL
  /\ heap_get_size(heap["A"]) = 4
  /\ ~heap_is_empty(heap["A"])
  /\ Cardinality(Reachable("A")) = 4

(* C6: identity preservation -- the nodes reachable from root_node are exactly
   the nodes inserted and not yet extracted; heap_extract_min returns one of
   them (NULL on an empty heap), removes that node and no other; heap_insert
   adds the inserted node and no other; heap_decrease_key keeps the set. *)
IdentityPreserved ==
  [][/\ Reachable("A")' = queued'["A"]
     /\ lastOp' = "heap_extract_min" =>
          IF Count("A") = 0 THEN ret' = NULL /\ Reachable("A")' = {}
          ELSE /\ ret' \in queued["A"]
               /\ ret' \notin Reachable("A")'
               /\ Reachable("A")' = Reachable("A") \ {ret'}
     /\ lastOp' = "heap_insert" =>
          /\ opNode' \notin Reachable("A")
          /\ Reachable("A")' = Reachable("A") \cup {opNode'}
     /\ lastOp' = "heap_decrease_key" =>
          /\ opNode' \in Reachable("A")
          /\ Reachable("A")' = Reachable("A")]_vars

(* An extraction from a four-node heap whose relocated last node was sifted
   down: the three other nodes are still the queued ones. *)
IdentityWitness ==
  /\ lastOp = "heap_extract_min"
  /\ ret # NULL
  /\ Cardinality(Reachable("A")) = 3
  /\ queued["A"] = Reachable("A")
  /\ ret \notin Reachable("A")
  /\ Root("A") # opNode

(* C7: membership over a node's lifecycle on one heap -- heap_is_node_added
   holds of a node exactly while it is inserted and not yet extracted: false
   for a node prepared with heap_init_node, true after heap_insert and every
   later operation that does not return it, false once heap_extract_min has
   returned it. *)
MembershipLifecycle ==
  /\ \A n \in Nodes : heap_is_node_added(heap["A"], n) <=> n \in queued["A"]
  /\ lastOp = "heap_insert" => heap_is_node_added(heap["A"], opNode)
  /\ (lastOp = "heap_extract_min" /\ ret # NULL) => ~heap_is_node_added(heap["A"], ret)

(* An extraction from a two-node heap: the node left over is alone in the
   heap, has no links and is still reported as added; the returned one is not. *)
MembershipWitness ==
  /\ lastOp = "heap_extract_min"
  /\ ret # NULL
  /\ Count("A") = 1
  /\ parent[Root("A")] = NULL /\ left[Root("A")] = NULL /\ right[Root("A")] = NULL
  /\ heap_is_node_added(heap["A"], Root("A"))
  /\ ~heap_is_node_added(heap["A"], ret)

(* C8: heap_is_node_added(heap, node) holds if and only if the node is queued
   in the heap passed as argument, for each of two heaps in use, and is false
   for a NULL node. *)
MembershipPerHeap ==
  \A h \in Heaps :
    /\ \A n \in Nodes : heap_is_node_added(heap[h], n) <=> n \in queued[h]
    /\ ~heap_is_node_added(heap[h], NULL)

(* C9: extract on empty -- heap_extract_min on a heap with count 0 returns
   NULL and changes neither the heap nor any node, and a heap_insert right
   after it makes the node root_node and last_node of a one-node heap. *)
ExtractOnEmpty ==
  [][/\ (ExtractMin("A") /\ Count("A") = 0) =>
          /\ ret' = NULL
          /\ heap' = heap
          /\ parent' = parent /\ left' = left /\ right' = right /\ key' = key
     /\ (lastOp = "heap_extract_min" /\ ret = NULL /\ lastOp' = "heap_insert") =>
          /\ heap'["A"] = [count |-> 1, root_node |-> opNode', last_node |-> opNode']
          /\ parent'[opNode'] = NULL /\ left'[opNode'] = NULL
          /\ right'[opNode'] = NULL]_vars

(* heap_extract_min has been called on the empty heap. *)
ExtractOnEmptyWitness ==
  /\ lastOp = "heap_extract_min"
  /\ ret = NULL
  /\ Count("A") = 0
  /\ Root("A") = NULL
  /\ Last("A") = NULL

(* C10: root/last nullness -- root_node is NULL iff count is 0 iff last_node
   is NULL; with one node root_node is last_node; a non-empty heap's root has
   no parent and its key is a minimum of the queued keys. *)
RootLastNullness ==
  /\ Root("A") = NULL <=> Count("A") = 0
  /\ Count("A") = 0 <=> Last("A") = NULL
  /\ Count("A") = 1 => Root("A") = Last("A")
  /\ Count("A") >= 1 =>
       /\ parent[Root("A")] = NULL
       /\ \A n \in queued["A"] : key[Root("A")] <= key[n]

(* The one-node heap left by an extraction from a two-node heap whose second
   node had the larger key. *)
RootLastWitness ==
  /\ lastOp = "heap_extract_min"
  /\ ret # NULL
  /\ Count("A") = 1
  /\ Root("A") = Last("A")
  /\ Root("A") = opNode
  /\ key[ret] < key[Root("A")]

(* C11: insert postcondition -- heap_insert of a node that is not queued
   raises count by exactly 1 and makes the node queued (reachable from
   root_node and reported by heap_is_node_added); into an empty heap the node
   becomes root_node and last_node with parent, left and right NULL; every
   node queued before is still queued. *)
InsertPostcondition ==
  [][lastOp' = "heap_insert" =>
       /\ opNode' \notin Reachable("A")
       /\ Count("A")' = Count("A") + 1
       /\ opNode' \in Reachable("A")'
       /\ \E n \in Nodes : n = opNode' /\ heap_is_node_added(heap["A"], n)'
       /\ Reachable("A") \subseteq Reachable("A")'
       /\ Count("A") = 0 =>
            /\ Root("A")' = opNode' /\ Last("A")' = opNode'
            /\ parent'[opNode'] = NULL /\ left'[opNode'] = NULL
            /\ right'[opNode'] = NULL]_vars

(* A node inserted as the right child of the root (the parent already had a
   left child) which stayed there: three nodes queued, the new one last. *)
InsertWitness ==
  /\ lastOp = "heap_insert"
  /\ Count("A") = 3
  /\ right[Root("A")] = opNode
  /\ Last("A") = opNode
  /\ left[Root("A")] # NULL
  /\ queued["A"] = Reachable("A")

(* C12: decrease_key restores order -- after the caller has lowered (or kept)
   the key of any queued node and called heap_decrease_key on it, no queued
   node has a key smaller than its parent's key; and when the node's new key
   is strictly smaller than every other queued key, the node is root_node. *)
DecreaseRestoresOrder ==
  lastOp = "heap_decrease_key" =>
    /\ \A n \in Reachable("A") : parent[n] # NULL => key[parent[n]] <= key[n]
    /\ (\A n \in Reachable("A") \ {opNode} : key[opNode] < key[n]) =>
         Root("A") = opNode

(* heap_decrease_key was called on a node of a six-node heap whose key is
   strictly smaller than the five other keys: it is the root. *)
DecreaseWitness ==
  /\ lastOp = "heap_decrease_key"
  /\ Count("A") = 6
  /\ Root("A") = opNode
  /\ \A n \in Reachable("A") \ {opNode} : key[opNode] < key[n]

(* C13: decrease_key frame -- heap_decrease_key changes neither count nor the
   set of queued nodes; called on the root, or on a node whose key is not
   strictly smaller than its parent's key (equal keys included), it changes
   no link of any node, nor root_node, nor last_node. *)
DecreaseFrame ==
  [][lastOp' = "heap_decrease_key" =>
       /\ Count("A")' = Count("A")
       /\ Reachable("A")' = Reachable("A")
       /\ (parent[opNode'] = NULL \/ key'[parent[opNode']] <= key'[opNode']) =>
            /\ parent' = parent /\ left' = left /\ right' = right
            /\ heap' = heap]_vars

(* heap_decrease_key was called on the last node of a five-node heap, whose
   key equals its parent's key: the node is still the last node below that
   parent. *)
DecreaseFrameWitness ==
  /\ lastOp = "heap_decrease_key"
  /\ Count("A") = 5
  /\ Last("A") = opNode
  /\ parent[opNode] # NULL
  /\ key[parent[opNode]] = key[opNode]
  /\ NodeAt("A", 5) = opNode

(* C14: extracted node is cleared -- the node returned by heap_extract_min
   has parent, left and right NULL, and no queued node's link, nor root_node,
   nor last_node refers to it; when the extraction emptied the heap, count is
   0, root_node and last_node are NULL, and heap_is_node_added reports the
   returned node for no heap. *)
ExtractedCleared ==
  (lastOp = "heap_extract_min" /\ ret # NULL) =>
    /\ parent[ret] = NULL /\ left[ret] = NULL /\ right[ret] = NULL
    /\ \A n \in queued["A"] : parent[n] # ret /\ left[n] # ret /\ right[n] # ret
    /\ Root("A") # ret /\ Last("A") # ret
    /\ queued["A"] = {} =>
         /\ Count("A") = 0 /\ Root("A") = NULL /\ Last("A") = NULL
         /\ \A h \in Heaps : ~heap_is_node_added(heap[h], ret)

(* The minimum was extracted from a six-node heap, where it had two children:
   five nodes remain and the returned node has no links. *)
ExtractedClearedWitness ==
  /\ lastOp = "heap_extract_min"
  /\ ret # NULL
  /\ Count("A") = 5
  /\ ret \notin queued["A"]
  /\ parent[ret] = NULL /\ left[ret] = NULL /\ right[ret] = NULL
  /\ left[Root("A")] # NULL /\ right[Root("A")] # NULL

(* The position of the node the last operation was about. *)
OpNodePos == PosOf("A", opNode)

(* C15 (as claimed): sift-down tie-break -- when the node sifted down by
   heap_extract_min stands at a position q whose two children both exist,
   both have keys strictly smaller than the node's, and their keys are equal,
   the node is rotated with its left child: it goes on through position 2q. *)
TieBreakLeft ==
  [][lastOp' = "heap_extract_min" =>
       \A q \in 1..NumNodes :
         (/\ 2 * q + 1 <= Count("A") - 1
          /\ OnPath(q, OpNodePos')
          /\ key[NodeAt("A", 2 * q)] = key[NodeAt("A", 2 * q + 1)]
          /\ key[opNode'] > key[NodeAt("A", 2 * q)])
         => OnPath(2 * q, OpNodePos')]_vars

(* C15 (amended): in that situation the node is rotated with its right child:
   it goes on through position 2q+1 (the left child is chosen only when its
   key is strictly smaller than the right child's). *)
TieBreakRight ==
  [][lastOp' = "heap_extract_min" =>
       \A q \in 1..NumNodes :
         (/\ 2 * q + 1 <= Count("A") - 1
          /\ OnPath(q, OpNodePos')
          /\ key[NodeAt("A", 2 * q)] = key[NodeAt("A", 2 * q + 1)]
          /\ key[opNode'] > key[NodeAt("A", 2 * q)])
         => OnPath(2 * q + 1, OpNodePos')]_vars

(* An extraction whose relocated node met two equal smaller children at the
   root and now is the right child of the former right child, beside the
   former left child. *)
TieBreakWitness ==
  /\ lastOp = "heap_extract_min"
  /\ ret # NULL
  /\ Count("A") >= 3
  /\ right[Root("A")] = opNode
  /\ left[Root("A")] # NULL
  /\ key[left[Root("A")]] = key[Root("A")]
  /\ key[Root("A")] < key[opNode]

(* The positions of the third level that hold a node. *)
ThirdLevel == {p \in 4..7 : NodeAt("A", p) # NULL}

(* C16 (as claimed): after 7 nodes were inserted into the empty heap the
   tree has two full levels plus exactly one node on the third level, and
   last_node is that single occupant of the third level. *)
SevenNodesOneOnThirdLevel ==
  Count("A") = 7 =>
    /\ \A p \in 1..3 : NodeAt("A", p) # NULL
    /\ Cardinality(ThirdLevel) = 1
    /\ \A p \in ThirdLevel : Last("A") = NodeAt("A", p)

(* C16 (amended): after 4 nodes were inserted into the empty heap the tree
   has two full levels plus exactly one node on the third level, at position
   4, and last_node is that node; after 7 nodes the third level is full and
   last_node is its rightmost node, at position 7. *)
FillScenario ==
  /\ Count("A") = 4 =>
       /\ \A p \in 1..3 : NodeAt("A", p) # NULL
       /\ ThirdLevel = {4}
       /\ Last("A") = NodeAt("A", 4)
       /\ \A p \in 8..15 : NodeAt("A", p) = NULL
  /\ Count("A") = 7 =>
       /\ \A p \in 1..3 : NodeAt("A", p) # NULL
       /\ ThirdLevel = 4..7
       /\ Last("A") = NodeAt("A", 7)
       /\ \A p \in 8..15 : NodeAt("A", p) = NULL

(* Four nodes were inserted and the fourth was sifted up to the root: the
   single occupant of the third level, named by last_node, is another node. *)
FillWitness ==
  /\ lastOp = "heap_insert"
  /\ Count("A") = 4
  /\ Root("A") = opNode
  /\ ThirdLevel = {4}
  /\ Last("A") = NodeAt("A", 4)
  /\ Last("A") # opNode

(* C17: termination -- every call of heap_insert, heap_decrease_key and
   heap_extract_min that was entered returns; the sift-up loop makes at most
   depth(node) parent swaps and each swap lifts the node by one level; the
   sift-down makes at most height-of-tree rotations and each rotation lowers
   the node by one level; the navigator walks make at most 2 * height loop
   iterations; no call stops on a NULL dereference. *)
StepBounds ==
  /\ ~crashed
  /\ call.pc = "sift_up" =>
       /\ call.swaps <= call.limit
       /\ Depth(View("A"), call.node) + call.swaps = call.limit
  /\ call.pc = "sift_down" =>
       /\ call.swaps <= call.limit
       /\ Depth(View("A"), call.node) = call.swaps
  /\ Running => call.walk <= 2 * Height(heap["A"].count)

Termination == [](StepBounds) /\ (Running ~> ~Running)

(* An extraction from a six-node heap whose walk for the new last node
   climbed and descended, and whose sift-down has made two rotations, the
   height of the five-node tree: the relocated node is a leaf and the call is
   about to return. *)
TerminationWitness ==
  /\ call.pc = "sift_down"
  /\ call.walk >= 1
  /\ call.swaps = 2
  /\ call.limit = 2
  /\ heap["A"].count = 5
  /\ left[call.node] = NULL
  /\ ~SiftDownCond(View("A"), key, call.node)

(* C18: insert placement -- on a heap of count >= 1 nodes
   heap_find_parent_insert_node returns the node at position
   floor((count+1)/2), and heap_insert attaches the new node below it, as the
   left child iff count+1 is even, which is position count+1, counts it and
   makes it last_node before the sift-up; no other link changes. *)
InsertPlacement ==
  Count("A") >= 1 =>
    LET s == View("A")
        p == heap_find_parent_insert_node(s)
    IN /\ p = NodeAt("A", (Count("A") + 1) \div 2)
       /\ \A n \in Nodes \ queued["A"] :
            LET b == Attached(heap_init_node(s, n), n, p)
            IN /\ b.count = Count("A") + 1
               /\ b.last_node = n
               /\ b.root_node = Root("A")
               /\ b.parent[n] = p /\ b.left[n] = NULL /\ b.right[n] = NULL
               /\ IF (Count("A") + 1) % 2 = 0
                    THEN b.left[p] = n /\ b.right[p] = NULL
                    ELSE b.right[p] = n /\ b.left[p] = left[p] /\ left[p] # NULL
               /\ b.parent[p] = parent[p]
               /\ \A m \in Nodes \ {n, p} :
                    /\ b.parent[m] = parent[m]
                    /\ b.left[m] = left[m]
                    /\ b.right[m] = right[m]

(* A sixth node was inserted, after the climb from a last node that was a
   right child to the next subtree, and stayed where it was attached: it is
   the left child of the node at position 3. *)
InsertPlacementWitness ==
  /\ lastOp = "heap_insert"
  /\ Count("A") = 6
  /\ NodeAt("A", 6) = opNode
  /\ left[NodeAt("A", 3)] = opNode
  /\ Last("A") = opNode

(* C19: extract relocation step -- when heap_extract_min is called on a heap
   of count >= 3 nodes, then at the call of heap_increse_key the former last
   node is the root (position 1), without parent, with the old root's
   children (without itself when it was the root's right child) which name it
   as parent; the nodes at positions 2..count-1 keep their positions and
   position count is empty; count is decremented; last_node is the node that
   was at position count-1: the left child of the removed node's parent when
   the removed node was a right child, else the node heap_find_last_node
   finds, which is the rightmost node of the level above when count was a
   power of two. *)
RelocationStep ==
  Count("A") >= 3 =>
    LET new_min == Last("A")
        min_node == Root("A")
        m == Relocated(SetCount(View("A"), Count("A") - 1), min_node, new_min)
    IN /\ ~m.segv
       /\ m.count = Count("A") - 1
       /\ m.root_node = new_min
       /\ m.parent[new_min] = NULL
       /\ m.left[new_min] = left[min_node]
       /\ m.right[new_min] = IF right[min_node] = new_min THEN NULL ELSE right[min_node]
       /\ m.parent[m.left[new_min]] = new_min
       /\ m.right[new_min] # NULL => m.parent[m.right[new_min]] = new_min
       /\ \A p \in 2..(Count("A") - 1) : NodeAtIn(m, p) = NodeAt("A", p)
       /\ \A p \in Count("A")..(2 * Count("A") + 1) : NodeAtIn(m, p) = NULL
       /\ m.last_node = NodeAt("A", Count("A") - 1)
       /\ right[parent[new_min]] = new_min => m.last_node = left[parent[new_min]]
       /\ left[parent[new_min]] = new_min =>
            /\ m.last_node = heap_find_last_node(
                               SetLastNode(SetLeft(SetCount(View("A"), Count("A") - 1),
                                                   parent[new_min], NULL),
                                           parent[new_min]))
            /\ heap_perfect_log2(Count("A")) = 0 =>
                 m.last_node = DescendRight(View("A"), min_node)

(* An extraction from a six-node heap whose relocated node was not sifted
   down: the former last node, removed as a left child, is the root above
   the old root's children, and last_node is the node at position 5. *)
RelocationWitness ==
  /\ lastOp = "heap_extract_min"
  /\ ret # NULL
  /\ Count("A") = 5
  /\ Root("A") = opNode
  /\ left[opNode] # NULL /\ right[opNode] # NULL
  /\ Last("A") = NodeAt("A", 5)
  /\ Last("A") # opNode

(* Nodes a and b, at positions pa and pb, have exchanged their positions and
   every other position has kept its node. *)
Transposed(a, b, pa, pb) ==
  /\ pa # 0 /\ pb # 0
  /\ NodeAt("A", pa)' = b
  /\ NodeAt("A", pb)' = a
  /\ \A r \in (1..NumNodes) \ {pa, pb} : NodeAt("A", r)' = NodeAt("A", r)
  /\ Count("A")' = Count("A")

(* The link that named the upper node of the pair -- a child link of its
   parent g, or root_node -- names the promoted node now, and nothing else
   above the pair has changed. *)
UpperLinkRedirected(upper, promoted, g) ==
  /\ parent'[promoted] = g
  /\ IF g = NULL
       THEN Root("A")' = promoted
       ELSE /\ Root("A")' = Root("A")
            /\ IF left[g] = upper
                 THEN left'[g] = promoted /\ right'[g] = right[g]
                 ELSE right'[g] = promoted /\ left'[g] = left[g]

(* C20: rotation is a position transposition -- every rotation made by the
   sift-down (heap_swap_left / heap_swap_right) exchanges the positions of
   the node and the chosen child, which is at position 2p or 2p+1 below the
   node's position p, and every parent swap of the loop of heap_decrease_key
   exchanges the positions of the node and its parent; every other node keeps
   its position; the child link of the pair's parent, or root_node, names the
   promoted node; after a rotation last_node names the demoted node if it
   named the promoted one and is unchanged otherwise, so that it names the
   occupant of the same position; after a parent swap last_node names the
   occupant of position count, the demoted parent when the node came from
   there. *)
RotationTransposes ==
  [][/\ (call.pc = "sift_down" /\ call'.swaps = call.swaps + 1) =>
          \E n \in {call.node} : \E c \in {parent'[n]} :
          \E p \in {PosOf("A", n)} : \E q \in {PosOf("A", c)} :
          \E lp \in {PosOf("A", Last("A"))} :
            /\ c # NULL /\ c \in {left[n], right[n]}
            /\ q \in {2 * p, 2 * p + 1}
            /\ Transposed(n, c, p, q)
            /\ UpperLinkRedirected(n, c, parent[n])
            /\ Last("A")' = IF Last("A") = c THEN n ELSE Last("A")
            /\ NodeAt("A", lp)' = Last("A")'
     /\ (call.pc = "sift_up" /\ call'.swaps = call.swaps + 1) =>
          \E n \in {call.node} : \E c \in {parent[n]} :
          \E p \in {PosOf("A", n)} : \E q \in {PosOf("A", c)} :
            /\ c # NULL /\ parent'[c] = n
            /\ q = p \div 2
            /\ Transposed(n, c, p, q)
            /\ UpperLinkRedirected(c, n, parent[c])
            /\ Last("A")' = NodeAt("A", Count("A"))'
            /\ p = Count("A") => Last("A")' = c]_vars

(* The second rotation of a sift-down in a four-node heap has promoted the
   node that last_node named: the sifted node is at position 4, below the
   node that took its place at position 2, and is last_node now. *)
RotationWitness ==
  /\ call.pc = "sift_down"
  /\ call.swaps = 2
  /\ heap["A"].count = 4
  /\ NodeAt("A", 4) = call.node
  /\ Last("A") = call.node

(* Every parent-child pair of the heap whose parent is not n is in order:
   the subtrees below n, and everything beside and above n, satisfy the
   order invariant. *)
OrderedExceptAt(n) ==
  \A m \in Reachable("A") :
    (parent[m] # NULL /\ parent[m] # n) => key[parent[m]] <= key[m]

(* C21: sift-down postcondition -- heap_increse_key is entered on a node
   whose two subtrees satisfy the order invariant, and so is each recursive
   call; each rotation is made with a child whose key is strictly smaller
   than the node's, and that child's key is the least among the children
   (the strictly smaller child when both are smaller); the sift-down returns
   exactly when the node is a leaf or no child has a strictly smaller key,
   and then the order invariant holds on the whole subtree, which is the
   whole heap as heap_increse_key is called on the root. *)
SiftDownPostcondition ==
  [][call.pc = "sift_down" =>
       \E n \in {call.node} : \E l \in {left[n]} : \E r \in {right[n]} :
         /\ OrderedExceptAt(n)
         /\ IF call'.pc = "sift_down"
              THEN \E c \in {parent'[n]} :
                     /\ call'.swaps = call.swaps + 1
                     /\ c # NULL /\ c \in {l, r}
                     /\ key[c] < key[n]
                     /\ \A o \in {l, r} \ {NULL} : key[c] <= key[o]
                     /\ OrderedExceptAt(n)'
              ELSE /\ call'.pc = "idle"
                   /\ \A o \in {l, r} \ {NULL} : key[n] <= key[o]
                   /\ \A m \in Nodes \ {call.min_node} :
                        /\ parent'[m] = parent[m]
                        /\ left'[m] = left[m]
                        /\ right'[m] = right[m]
                   /\ OrderInvariant']_vars

(* The first rotation of a sift-down was made below the root between two
   children that both had smaller keys than the relocated node: the promoted
   child, now the root, has a strictly smaller key than the other child,
   whose key is strictly smaller than the sifted node's. *)
SiftDownWitness ==
  /\ call.pc = "sift_down"
  /\ call.swaps = 1
  /\ parent[call.node] = Root("A")
  /\ \E o \in {left[Root("A")], right[Root("A")]} \ {NULL, call.node} :
       /\ key[Root("A")] < key[o]
       /\ key[o] < key[call.node]

(* Following parent links from n ends at NULL within fuel steps. *)
RECURSIVE ParentChainEnds(_, _)
ParentChainEnds(n, fuel) ==
  \/ n = NULL
  \/ fuel > 0 /\ ParentChainEnds(parent[n], fuel - 1)

(* C22: link consistency -- in every state between calls, for every queued
   node n: a left or right child of n names n as its parent; a parent of n
   has n as its left or as its right child, not as both; root_node has no
   parent and is the only queued node without one; no node has a right child
   without a left child; the parent links lead to NULL, so the links contain
   no cycle; and a node that is not queued has neither parent nor children. *)
LinkConsistency ==
  /\ \A n \in queued["A"] :
       /\ left[n] # NULL => parent[left[n]] = n
       /\ right[n] # NULL => parent[right[n]] = n
       /\ parent[n] # NULL =>
            /\ left[parent[n]] = n \/ right[parent[n]] = n
            /\ ~(left[parent[n]] = n /\ right[parent[n]] = n)
       /\ (parent[n] = NULL) = (n = Root("A"))
       /\ right[n] # NULL => left[n] # NULL
       /\ ParentChainEnds(n, Cardinality(Nodes))
       /\ {parent[n], left[n], right[n]} \subseteq queued["A"] \cup {NULL}
  /\ Root("A") # NULL => Root("A") \in queued["A"] /\ parent[Root("A")] = NULL
  /\ \A n \in Nodes \ queued["A"] :
       parent[n] = NULL /\ left[n] = NULL /\ right[n] = NULL

(* Six queued nodes after a call that rotated: a sift-up from the bottom
   level that ended below the root, so that the moved node has a parent, a
   sibling and two children, all naming each other. *)
LinkWitness ==
  /\ lastOp = "heap_decrease_key"
  /\ Count("A") = 6
  /\ NodeAt("A", 2) = opNode
  /\ left[opNode] # NULL /\ right[opNode] # NULL
  /\ parent[left[opNode]] = opNode /\ parent[right[opNode]] = opNode
  /\ key[opNode] < key[left[opNode]]

(* C23: no null dereference -- no call follows a NULL link: the upward walks
   of heap_find_parent_insert_node and heap_find_last_node are, at each
   evaluation of their loop condition and where they stop, at a node that has
   a parent; the downward walks are at a non-NULL node from their start on;
   the parent found for the attachment and the last node found are not NULL;
   the sifted node is not NULL and is compared with its parent only when it
   has one; and in every heap of count >= 3 between calls the last node has a
   parent, which is what heap_extract_min dereferences. *)
NoNullDereference ==
  /\ ~crashed
  /\ call.pc \in {"parent_climb", "last_climb"} =>
       call.aux # NULL /\ parent[call.aux] # NULL
  /\ call.pc \in {"parent_descend", "last_descend", "attach", "store_last"} =>
       call.aux # NULL
  /\ call.pc \in {"sift_up", "sift_down", "relocate"} => call.node # NULL
  /\ call.pc = "relocate" => call.min_node # NULL
  /\ (~Running /\ Count("A") >= 3) =>
       /\ Last("A") # NULL
       /\ parent[Last("A")] # NULL
       /\ Root("A") # NULL
  /\ (~Running /\ Count("A") >= 1) => Root("A") # NULL /\ Last("A") # NULL

(* The insert navigator has climbed once from a last node that was a right
   child and stops at a node that is a left child: that node has a parent,
   whose right child the navigator descends from. *)
NoNullWitness ==
  /\ call.pc = "parent_climb"
  /\ call.walk = 1
  /\ Count("A") = 5
  /\ parent[call.aux] = Root("A")
  /\ left[Root("A")] = call.aux
  /\ right[Root("A")] # NULL

(* C24: structural invariants do not depend on keys -- when the caller
   writes any keys into queued nodes between the calls, so that the order
   invariant need not hold when heap_insert, heap_decrease_key or
   heap_extract_min is called, no call stops on a NULL link and after every
   call the queued nodes still fill the positions 1..count of a complete
   tree, each once, and nothing else is linked; count is their number;
   last_node is the node at position count; the links are consistent; and
   the nodes reachable from root_node are exactly the nodes inserted and not
   yet returned by heap_extract_min. *)
StructureWhateverKeys ==
  /\ ~crashed
  /\ ShapeInvariant
  /\ CountFidelity
  /\ LastPointerValid
  /\ LinkConsistency
  /\ Reachable("A") = queued["A"]
  /\ Count("A") = Cardinality(queued["A"])
  /\ lastOp = "heap_extract_min" =>
       ret = NULL \/ (ret \notin queued["A"] /\ ~heap_is_node_added(heap["A"], ret))

(* heap_decrease_key has returned on a heap of five nodes whose keys were
   out of order and still are: its node is the root, and below it the node
   at position 2 has a greater key than its left child at position 4. *)
StructureWitness ==
  /\ lastOp = "heap_decrease_key"
  /\ Count("A") = 5
  /\ Root("A") = opNode
  /\ key[NodeAt("A", 2)] > key[NodeAt("A", 4)]
  /\ key[opNode] < key[NodeAt("A", 2)]

(* C25: keys are never written by the heap -- in every reachable state, and
   for every call that can be made in it (heap_init, heap_init_node on a node
   outside the heap, heap_insert of a node with any key, heap_decrease_key of
   a queued node with any lowered key, heap_extract_min, and the rotations
   heap_swap_left / heap_swap_right on a node that has that child), the key
   field of every node is after the call what it was when the call was made:
   the functions change links, count, root_node and last_node only. *)
KeysNeverWritten ==
  /\ heap_init(View("A")).key = key
  /\ heap_extract_min(View("A"), key).s.key = key
  /\ \A n \in Nodes \ AllQueued :
       /\ heap_init_node(View("A"), n).key = key
       /\ \A k \in Keys :
            heap_insert(WithKey(View("A"), n, k), [key EXCEPT ![n] = k], n).key
              = [key EXCEPT ![n] = k]
  /\ \A n \in queued["A"] :
       /\ \A k \in 1..key[n] :
            heap_decrease_key(WithKey(View("A"), n, k), [key EXCEPT ![n] = k], n).key
              = [key EXCEPT ![n] = k]
       /\ left[n] # NULL => heap_swap_left(View("A"), n).key = key
       /\ right[n] # NULL => heap_swap_right(View("A"), n).key = key

(* An extraction from a heap of six nodes has returned the old root, and
   the relocated former last node was sifted down below a node with a
   smaller key: the nodes have changed places, and each has the key it had. *)
KeysWitness ==
  /\ lastOp = "heap_extract_min"
  /\ ret # NULL
  /\ Count("A") = 5
  /\ opNode # Root("A")
  /\ key[parent[opNode]] < key[opNode]
  /\ key[ret] <= key[Root("A")]

(* C26: heap_init frame -- heap_init called in any reachable state, on a
   non-empty heap too, returns with count 0 and root_node and last_node NULL
   and with the parent, left and right links (and the key) of every node as
   they were; the heap holds no node then.  Nodes that keep a link from
   before are still reported by heap_is_node_added; a node is reported as not
   added again once heap_init_node was called on it, and is reported as added
   and is queued once it was inserted again; queued nodes are always
   reported as added, and a node without links that is not queued never is. *)
HeapInitFrame ==
  /\ \E t \in {heap_init(View("A"))} :
       /\ t.count = 0 /\ t.root_node = NULL /\ t.last_node = NULL
       /\ t.parent = parent /\ t.left = left /\ t.right = right
       /\ t.key = key
       /\ ~t.segv
  /\ lastOp = "heap_init" =>
       /\ Count("A") = 0 /\ Root("A") = NULL /\ Last("A") = NULL
       /\ heap_is_empty(heap["A"])
       /\ queued["A"] = {}
  /\ lastOp = "heap_init_node" =>
       opNode \notin queued["A"] /\ ~heap_is_node_added(heap["A"], opNode)
  /\ lastOp = "heap_insert" =>
       opNode \in queued["A"] /\ heap_is_node_added(heap["A"], opNode)
  /\ \A n \in queued["A"] : heap_is_node_added(heap["A"], n)
  /\ \A n \in Nodes \ queued["A"] :
       (parent[n] = NULL /\ left[n] = NULL /\ right[n] = NULL) =>
         ~heap_is_node_added(heap["A"], n)

(* heap_init has returned on a heap that held three nodes: the heap is
   empty, and the node that was the root still has its two children, which
   still name it as parent, so all three are reported as added. *)
HeapInitWitness ==
  /\ lastOp = "heap_init"
  /\ Count("A") = 0
  /\ \E n \in Nodes :
       /\ left[n] # NULL /\ right[n] # NULL
       /\ parent[left[n]] = n /\ parent[right[n]] = n
       /\ n \notin queued["A"]
       /\ heap_is_node_added(heap["A"], n)
       /\ heap_is_node_added(heap["A"], left[n])

(* C27: insert ignores prior links -- in every state reached by inserting
   nodes whose link fields held arbitrary values, and for every node outside
   the heap, every key and every three values p, l, r of the node's parent,
   left and right fields, heap_insert on the node with those links returns
   the same memory and heap as heap_insert on the node with NULL links, and
   follows no NULL link; the heaps made of such nodes are complete trees of
   exactly the inserted nodes with last_node at position count, and the
   nodes outside the heap hold no links. *)
InsertIgnoresPriorLinks ==
  /\ ~crashed
  /\ \A n \in RawNodeSet \ AllQueued :
       /\ parent[n] = NULL /\ left[n] = NULL /\ right[n] = NULL
       /\ \A k \in Keys : \A p \in RawLinks, l \in RawLinks, r \in RawLinks :
            /\ heap_insert(WithLinks(WithKey(View("A"), n, k), n, p, l, r),
                           [key EXCEPT ![n] = k], n)
                 = heap_insert(WithKey(View("A"), n, k), [key EXCEPT ![n] = k], n)
            /\ ~heap_insert(WithLinks(WithKey(View("A"), n, k), n, p, l, r),
                            [key EXCEPT ![n] = k], n).segv
  /\ ShapeInvariant
  /\ LastPointerValid
  /\ Reachable("A") = queued["A"]
  /\ \A n \in queued["A"] :
       {parent[n], left[n], right[n]} \subseteq queued["A"] \cup {NULL}

(* Four nodes that were never initialised have been inserted, the last with
   the smallest key, and it was sifted up to the root: its links are those of
   the root of the heap, whatever they held before. *)
InsertRawWitness ==
  /\ lastOp = "heap_insert"
  /\ Count("A") = 4
  /\ Root("A") = opNode
  /\ parent[opNode] = NULL
  /\ left[opNode] # NULL /\ right[opNode] # NULL
  /\ key[opNode] < key[left[opNode]]

(* The bandwidth parameters are cleared: the speeds and the path cost are
   zero and no network and no gateway is set. *)
BwCleared(bw) ==
  /\ bw.egressUk = 0 /\ bw.egressDk = 0 /\ bw.path_cost = 0
  /\ ~bw.networkSet /\ ~bw.gatewaySet

(* C28: egress file change detection -- on every poll by the timer that
   comes when the reader has read the file successfully at its last attempt
   and the file still has the modification time it had at that read,
   readEgressFile returns false and leaves bwCurrent, bwPrevious and the
   changed flags of every interface as they are: the time stamp cached after
   a successful read, the first one and the first one after a failure
   included, is the modification time of the file. *)
EgressChangeDetection ==
  (reader.timers > 0 /\ poll.readStamp # 0 /\ file.state # "absent"
     /\ file.mtime = poll.readStamp) =>
    \A junk \in Stamps, chg \in [Ifaces -> ChangeOutcomes] :
      /\ ~readEgressFile(reader, file, junk, chg).ret
      /\ readEgressFile(reader, file, junk, chg).r.ifs = reader.ifs

(* What the reader holds of the process: the line buffer, the two compiled
   expressions, the timer. *)
Acquired(r) ==
  <<r.buffers, r.compiledRegexComment, r.compiledRegexEgress, r.timers,
    r.egress_file_timer>>

(* C29: egress reader lifecycle -- in every state reached by any sequence of
   start, stop, timer and file events: the poll timer is registered, once,
   exactly while started is true, and so are the line buffer and the two
   compiled expressions held; startEgressFile on a started reader returns
   true and changes nothing; when the allocation or one of the two regcomp
   calls fails it returns false with started false, no timer, no buffer and
   no compiled expression held and the interfaces and the cached stamp
   untouched; when all succeed it returns true with started set and one
   timer; stopEgressFile changes nothing when the reader is not started and
   otherwise stops the timer, releases the buffer and the expressions and
   resets started. *)
ReaderLifecycle ==
  /\ reader.timers = IF reader.started THEN 1 ELSE 0
  /\ (reader.egress_file_timer = "timer") = reader.started
  /\ reader.buffers = IF reader.started THEN 1 ELSE 0
  /\ (reader.line = "buffer") = reader.started
  /\ reader.compiledRegexComment = reader.started
  /\ reader.compiledRegexEgress = reader.started
  /\ \A mallocOk \in BOOLEAN, commentOk \in BOOLEAN, egressOk \in BOOLEAN :
     \A junk \in Stamps, chg \in [Ifaces -> ChangeOutcomes] :
       \E res \in {startEgressFile(reader, file, mallocOk, commentOk, egressOk,
                                   junk, chg)} :
         IF reader.started
           THEN res.ret /\ res.r = reader
         ELSE IF mallocOk /\ commentOk /\ egressOk
           THEN /\ res.ret /\ res.r.started
                /\ Acquired(res.r) = <<1, TRUE, TRUE, 1, "timer">>
                /\ res.r.line = "buffer"
         ELSE /\ ~res.ret /\ ~res.r.started
              /\ Acquired(res.r) = <<0, FALSE, FALSE, 0, "NULL">>
              /\ res.r.line = "NULL"
              /\ res.r.ifs = reader.ifs
              /\ res.r.cachedStat = reader.cachedStat
  /\ IF reader.started
       THEN /\ ~stopEgressFile(reader).started
            /\ Acquired(stopEgressFile(reader)) = <<0, FALSE, FALSE, 0, "NULL">>
            /\ stopEgressFile(reader).ifs = reader.ifs
       ELSE stopEgressFile(reader) = reader

(* The reader was started, has read the file, and was stopped: the line
   buffer is freed, no timer is left, and the stamp of the read is still
   cached. *)
ReaderLifecycleWitness ==
  /\ ~reader.started
  /\ reader.line = "freed"
  /\ reader.timers = 0
  /\ reader.cachedStat # 0
  /\ poll.readStamp # 0

(* The interface's bandwidth after the loop body for its accepted line. *)
LineApplied(eif, ln) ==
  /\ eif.inEgressFile
  /\ IF ln.uplink = 0 \/ ln.downlink = 0
       THEN BwCleared(eif.bwCurrent)
       ELSE /\ eif.bwCurrent.egressUk = ln.uplink
            /\ eif.bwCurrent.egressDk = ln.downlink
            /\ eif.bwCurrent.path_cost = ln.pathCosts
            /\ eif.bwCurrent.networkSet = ln.networkSet
            /\ eif.bwCurrent.gatewaySet = ln.gatewaySet

(* What the failure paths of readEgressFile do, for the reader r0 and every
   result res of the call. *)
FailureHandled(r0, res) ==
  res.path \in {"stat_failed", "open_failed"} =>
    /\ res.r.cachedStat = 0
    /\ \A i \in Ifaces :
         /\ res.r.ifs[i].bwPrevious = r0.ifs[i].bwCurrent
         /\ BwCleared(res.r.ifs[i].bwCurrent)
         /\ ~res.r.ifs[i].inEgressFile
    /\ res.ret = (\E i \in Ifaces : res.r.ifs[i].bwChanged)
    /\ \A junk \in Stamps, chg \in [Ifaces -> ChangeOutcomes] :
         readEgressFile(res.r, file, junk, chg).path # "unchanged"

(* The readers readEgressFile is called on in the current state: the
   reader as it is (the timer), and the reader with the stamps reset
   (startEgressFile). *)
ReadersNow == {reader, [reader EXCEPT !.cachedStat = 0]}

ReadResults ==
  {<<r0, readEgressFile(r0, file, junk, chg)>> :
     r0 \in ReadersNow, junk \in Stamps, chg \in [Ifaces -> ChangeOutcomes]}

(* C30 as it was stated: egress read failure handling -- when readEgressFile
   cannot stat or open the file it resets the cached stamp, copies every
   bwCurrent into bwPrevious, clears the current bandwidth of every
   interface and returns true iff some bwChanged is set; after a successful
   read the interfaces with a cleared current bandwidth are exactly those
   not named by an accepted line. *)
ClearedExactlyAbsent ==
  \A rr \in ReadResults :
    /\ FailureHandled(rr[1], rr[2])
    /\ rr[2].path = "read" =>
         \A i \in Ifaces :
           BwCleared(rr[2].r.ifs[i].bwCurrent) = ~file.lines[i].accepted

(* C30: egress read failure handling -- when readEgressFile cannot stat or
   open the file it resets the cached stamp to zero, so that the next call
   goes for the file again, copies every bwCurrent into bwPrevious, clears
   the current bandwidth of every interface and returns true iff some
   bwChanged is set; after a successful read bwPrevious is the former
   bwCurrent, the interfaces not named by an accepted line are cleared in
   the same way, and an interface named by an accepted line has the
   bandwidth of that line, which is the cleared one too when the line's
   uplink or downlink is zero; the return value is true iff some bwChanged
   is set. *)
ReadFailureHandling ==
  \A rr \in ReadResults :
    /\ FailureHandled(rr[1], rr[2])
    /\ rr[2].path = "read" =>
         /\ rr[2].ret = (\E i \in Ifaces : rr[2].r.ifs[i].bwChanged)
         /\ \A i \in Ifaces :
              /\ rr[2].r.ifs[i].bwPrevious = rr[1].ifs[i].bwCurrent
              /\ rr[2].r.ifs[i].inEgressFile = file.lines[i].accepted
              /\ ~file.lines[i].accepted => BwCleared(rr[2].r.ifs[i].bwCurrent)
              /\ file.lines[i].accepted =>
                   LineApplied(rr[2].r.ifs[i], file.lines[i])
              /\ BwCleared(rr[2].r.ifs[i].bwCurrent) =
                   (\/ ~file.lines[i].accepted
                    \/ file.lines[i].uplink = 0
                    \/ file.lines[i].downlink = 0)

(* The timer's call could not stat the file it had read before: the stamp
   is reset, an interface that had bandwidths from the file has them in
   bwPrevious and a cleared bwCurrent, and is flagged as changed. *)
ReadFailureWitness ==
  /\ poll.path = "stat_failed"
  /\ reader.started
  /\ reader.cachedStat = 0
  /\ \E i \in Ifaces :
       /\ reader.ifs[i].bwPrevious.egressUk = MaxBw
       /\ reader.ifs[i].bwPrevious.networkSet
       /\ BwCleared(reader.ifs[i].bwCurrent)
       /\ reader.ifs[i].bwChanged

(* The heap s without the right subtree of node p: a heap that does not
   satisfy the shape invariant. *)
WithoutRight(s, p) == [s EXCEPT !.right[p] = NULL]

(* C31: missing-right-sibling branch of the insert navigator -- whenever
   count + 1 is even and not a power of two, the walk of
   heap_find_parent_insert_node up from last_node while it is a right child
   dereferences no NULL pointer, moves up at least one level and ends at a
   left child whose parent has a right child, and the navigator's result is
   the node found by descending left from that right child, never that
   parent; the branch for a missing right child is only taken on a heap
   that breaks the shape invariant: were that right child missing, the
   navigator would return the ancestor's parent. *)
MissingSiblingBranchUnused ==
  (heap_perfect_log2(Count("A") + 1) # 0 /\ (Count("A") + 1) % 2 = 0) =>
    \E a \in {ClimbWhileRight(View("A"), Last("A"))} :
      /\ a # -1
      /\ a # Last("A")
      /\ parent[a] # NULL
      /\ left[parent[a]] = a
      /\ right[parent[a]] # NULL
      /\ heap_find_parent_insert_node(View("A"))
           = DescendLeft(View("A"), right[parent[a]])
      /\ heap_find_parent_insert_node(View("A")) # parent[a]
      /\ heap_find_parent_insert_node(WithoutRight(View("A"), parent[a]))
           = parent[a]

(* The twelfth node was inserted and has stayed where it was attached: the
   walk went up two levels from position 11 to position 2, whose parent,
   the root, has the right child at position 3, and the descent from there
   found the node at position 6, under which the new node is the left
   child. *)
MissingSiblingWitness ==
  /\ lastOp = "heap_insert"
  /\ Count("A") = 12
  /\ NodeAt("A", 12) = opNode
  /\ NodeAt("A", 11) # NULL
  /\ right[NodeAt("A", 5)] = NodeAt("A", 11)
  /\ right[NodeAt("A", 2)] = NodeAt("A", 5)
  /\ left[Root("A")] = NodeAt("A", 2)
  /\ parent[opNode] = left[right[Root("A")]]
  /\ left[parent[opNode]] = opNode

====
